---- MODULE Spec2Model ----
(***************************************************************************)
(* A model of the DeepSolv store analyser: the fetcher (services/scraper), *)
(* the extraction and aggregation pipeline (services/parser,               *)
(* services/realtime_analyzer), the competitor suggester                   *)
(* (services/competitor_finder) and the persistence adapter                *)
(* (database/crud).                                                        *)
(*                                                                         *)
(* Three specifications share the variables:                               *)
(*   SpecFetch  WebScraper.fetch_multiple_pages: one task per URL, each    *)
(*              running the retry loop of fetch_html / fetch_json, the     *)
(*              tasks interleaved at their suspension points;              *)
(*   Spec       RealtimeStoreAnalyzer.analyze_and_store_shop for one       *)
(*              request: fetch, extraction, aggregation, database block,   *)
(*              result;                                                    *)
(*   SpecDb     repeated analyses of one store persisted through BrandCRUD.*)
(***************************************************************************)
EXTENDS Integers, Sequences, FiniteSets, TLC

VARIABLES
    \* ---- WebScraper.fetch_multiple_pages (SpecFetch) ----
    fpc,            \* position of fetch_multiple_pages: "idle", "gathering", "returned", "raised"
    urls,           \* its argument: the batch, a sequence of URLs
    task,           \* per URL: the position of its fetch task in the retry loop
    requests,       \* per URL: number of session.get calls issued so far
    last,           \* per URL: what the latest session.get produced
    results,        \* per URL: what the task handed to asyncio.gather
    scraped_data,   \* the mapping fetch_multiple_pages returned
    \* ---- RealtimeStoreAnalyzer.analyze_and_store_shop (Spec, SpecDb) ----
    pc,             \* position of the request: "idle", "fetched", "competitors", "parsed", "done"
    request,        \* the request being served: [domain, save_to_db, no]
    scraped_content,\* the mapping handed to _parse_comprehensive_content
    competitors_out,\* what find_competitors did in this request
    brand_context,  \* the aggregated record, or NoRecord
    brand_id,       \* the id the database block left in brand_id (0: None)
    session,        \* the database session of this request
    returned,       \* the dictionaries analyze_and_store_shop returned for this request
    db,             \* the database: brand rows and related rows
    response,       \* what the analyze route answered for this request
    \* ---- ShopifyParser and the brand-name resolution (SpecParser) ----
    parser_call,    \* the extraction method called and its input
    parser_out,     \* what the call returned, or that it raised
    \* ---- the module-level RealtimeStoreAnalyzer under concurrent requests (SpecShared) ----
    self_parser,    \* analyzer.parser: the base URL of the ShopifyParser it holds
    self_scraper,   \* analyzer.scraper: the WebScraper it holds (0: None)
    scrapers,       \* per WebScraper created: the state of its aiohttp session
    runs            \* per call of analyze_and_store_shop: its position and locals

fetch_vars == <<fpc, urls, task, requests, last, results, scraped_data>>
analysis_vars == <<pc, request, scraped_content, competitors_out, brand_context,
                   brand_id, session, returned, db, response>>
parser_vars == <<parser_call, parser_out>>
shared_vars == <<self_parser, self_scraper, scrapers, runs>>
vars == <<fpc, urls, task, requests, last, results, scraped_data,
          pc, request, scraped_content, competitors_out, brand_context,
          brand_id, session, returned, db, response,
          parser_call, parser_out,
          self_parser, self_scraper, scrapers, runs>>

(***************************************************************************)
(* Python values.                                                          *)
(***************************************************************************)
\* Python's None, as a fetch result or a mapping value.
None == [type |-> "None"]
NoRecord == [type |-> "None"]

\* The body of an HTTP response, reduced to what the program reads from it:
\* the length of its text (0: an empty body, or for a JSON feed the empty
\* document {}), which home page it is, the FAQ structures and the feed products
\* it holds.
EmptyBody == [len |-> 0, home |-> 0, faqs |-> 0, products |-> 0]
PlainBody == [len |-> 500, home |-> 0, faqs |-> 0, products |-> 0]

\* bool(x) of a string or a dictionary: false exactly when it is empty.
Truthy(body) == body.len > 0

(***************************************************************************)
(* config.Settings                                                         *)
(***************************************************************************)
MAX_RETRIES == 3

(***************************************************************************)
(* RealtimeStoreAnalyzer._build_comprehensive_url_list: the candidate URLs *)
(* of one store, written as their paths under the base URL ("/" is the     *)
(* base URL itself).                                                       *)
(***************************************************************************)
urls_to_scrape ==
    << "/", "/products.json",
       "/collections/all", "/collections/all.json", "/sitemap_products_1.xml",
       "/pages/privacy-policy", "/pages/privacy", "/policies/privacy-policy",
       "/pages/terms-of-service", "/pages/terms",
       "/pages/refund-policy", "/pages/returns",
       "/pages/shipping-policy", "/pages/shipping",
       "/pages/about", "/pages/about-us", "/pages/our-story",
       "/pages/faq", "/pages/help", "/pages/support",
       "/pages/contact", "/pages/contact-us",
       "/pages/track-order", "/pages/size-guide", "/blogs/news" >>

\* url.endswith('.json') in fetch_multiple_pages.
EndsWithJson(url) == url \in {"/products.json", "/collections/all.json"}

(***************************************************************************)
(* WebScraper (services/scraper.py)                                        *)
(***************************************************************************)
\* Number of URLs in a batch of SpecFetch (the batch is a prefix of urls_to_scrape).
BatchSize == 2

\* What one session.get can produce: a response with a status and a body, or a
\* transport error (ClientError, asyncio.TimeoutError, a failure to read or
\* decode the body), written as kind "error".
Response(status, body) == [kind |-> "response", status |-> status, body |-> body]
TransportError == [kind |-> "error", status |-> 0, body |-> EmptyBody]
NoResponse == [kind |-> "none", status |-> 0, body |-> EmptyBody]

Is2xx(resp) == resp.kind = "response" /\ resp.status >= 200 /\ resp.status < 300

FetchResponses ==
    { Response(200, PlainBody), Response(200, EmptyBody), Response(201, PlainBody),
      Response(204, EmptyBody), Response(404, EmptyBody), Response(500, EmptyBody),
      TransportError }

\* "if response.status == 200" in fetch_html and fetch_json: the attempt
\* returns the body; every other outcome falls through to the retry.
AttemptSucceeds(resp) == resp.kind = "response" /\ resp.status = 200

\* "for attempt in range(retries + 1)": the attempts are numbered 0..retries.
LastAttempt_OffByOne(retries) == retries + 1
LastAttempt(retries) == retries

\* _fetch_html_with_url / _fetch_json_with_url: the content with its metadata
\* when the fetched content is truthy, None otherwise.  A key the dictionary
\* does not have reads as None (dict.get).
Wrap(url, body) ==
    IF ~Truthy(body) THEN None
    ELSE IF EndsWithJson(url)
         THEN [type |-> "json", url |-> url, content |-> None, json |-> body]
         ELSE [type |-> "html", url |-> url, content |-> body, json |-> None]

\* A task's outcome as asyncio.gather sees it.
Pending == [type |-> "pending"]
Raised == [type |-> "exception"]

BatchUrls == { urls[i] : i \in 1..Len(urls) }

\* A fetch task before its first step; ret is what fetch_html / fetch_json
\* returned (None until then, and None for a failure).
NewTask == [pc |-> "new", attempt |-> 0, ret |-> None]

\* fetch_multiple_pages(urls): an empty batch returns {} at once; otherwise one
\* task per URL is created and handed to asyncio.gather.
fetch_multiple_pages_call ==
    /\ fpc = "idle"
    /\ \E n \in 0..BatchSize :
         LET batch == SubSeq(urls_to_scrape, 1, n)
             us == { batch[i] : i \in 1..n }
         IN /\ urls' = batch
            /\ task' = [u \in us |-> NewTask]
            /\ requests' = [u \in us |-> 0]
            /\ last' = [u \in us |-> NoResponse]
            /\ results' = [u \in us |-> Pending]
            /\ IF n = 0
               THEN /\ fpc' = "returned"
                    /\ scraped_data' = [u \in us |-> None]
               ELSE /\ fpc' = "gathering"
                    /\ UNCHANGED scraped_data
    /\ UNCHANGED analysis_vars
    /\ UNCHANGED parser_vars
    /\ UNCHANGED shared_vars

\* fetch_html / fetch_json up to the loop: normalize_url(url) raises ValueError
\* for a URL that does not validate, outside the try of the loop, so the task
\* ends with the exception.
fetch_normalize(u) ==
    /\ fpc = "gathering"
    /\ task[u].pc = "new"
    /\ \E valid \in BOOLEAN :
         IF valid
         THEN /\ task' = [task EXCEPT ![u].pc = "request"]
              /\ UNCHANGED results
         ELSE /\ task' = [task EXCEPT ![u].pc = "done"]
              /\ results' = [results EXCEPT ![u] = Raised]
    /\ UNCHANGED <<fpc, urls, requests, last, scraped_data>>
    /\ UNCHANGED analysis_vars
    /\ UNCHANGED parser_vars
    /\ UNCHANGED shared_vars

\* One pass of the retry loop: session.get, then either the return of the
\* content (through the _with_url helper), or the wait before the next
\* attempt, or, after the last attempt, the return of None.
fetch_attempt(u) ==
    /\ fpc = "gathering"
    /\ task[u].pc = "request"
    /\ \E resp \in FetchResponses :
         /\ requests' = [requests EXCEPT ![u] = @ + 1]
         /\ last' = [last EXCEPT ![u] = resp]
         /\ IF AttemptSucceeds(resp)
            THEN /\ task' = [task EXCEPT ![u].pc = "done", ![u].ret = resp.body]
                 /\ results' = [results EXCEPT ![u] = Wrap(u, resp.body)]
            ELSE IF task[u].attempt < LastAttempt(MAX_RETRIES)
            THEN /\ task' = [task EXCEPT ![u].pc = "sleep"]
                 /\ UNCHANGED results
            ELSE /\ task' = [task EXCEPT ![u].pc = "done"]
                 /\ results' = [results EXCEPT ![u] = None]
    /\ UNCHANGED <<fpc, urls, scraped_data>>
    /\ UNCHANGED analysis_vars
    /\ UNCHANGED parser_vars
    /\ UNCHANGED shared_vars

\* "await asyncio.sleep(RATE_LIMIT_DELAY * (attempt + 1))" ends and the loop
\* moves to the next attempt.
fetch_retry(u) ==
    /\ fpc = "gathering"
    /\ task[u].pc = "sleep"
    /\ task' = [task EXCEPT ![u].pc = "request", ![u].attempt = @ + 1]
    /\ UNCHANGED <<fpc, urls, requests, last, results, scraped_data>>
    /\ UNCHANGED analysis_vars
    /\ UNCHANGED parser_vars
    /\ UNCHANGED shared_vars

\* asyncio.gather(*tasks, return_exceptions=...): with return_exceptions the
\* exceptions are results like the others; without it the first one is raised
\* to the caller.
GatherRaises_Propagating(res) == \E u \in DOMAIN res : res[u] = Raised
GatherRaises(res) == FALSE

\* "results = await asyncio.gather(*tasks, ...)" resumes when every task of
\* the batch has finished, whatever the order in which they finished.
GatherResumes_FirstCompleted(tasks) == \E u \in DOMAIN tasks : tasks[u].pc = "done"
GatherResumes(tasks) == \A u \in DOMAIN tasks : tasks[u].pc = "done"

\* The end of fetch_multiple_pages: every task has settled; an exception
\* among the results maps its URL to None, any other result is stored as is.
fetch_gather ==
    /\ fpc = "gathering"
    /\ GatherResumes(task)
    /\ IF GatherRaises(results)
       THEN /\ fpc' = "raised"
            /\ UNCHANGED scraped_data
       ELSE /\ fpc' = "returned"
            /\ scraped_data' = [u \in BatchUrls |->
                                  IF results[u] = Raised THEN None ELSE results[u]]
    /\ UNCHANGED <<urls, task, requests, last, results>>
    /\ UNCHANGED analysis_vars
    /\ UNCHANGED parser_vars
    /\ UNCHANGED shared_vars

(***************************************************************************)
(* Python lists and strings.  A text is a sequence of characters.          *)
(***************************************************************************)
Min(a, b) == IF a < b THEN a ELSE b
Max(a, b) == IF a > b THEN a ELSE b

\* s[:n]
Take(s, n) == SubSeq(s, 1, Min(Len(s), Max(n, 0)))

\* "a in b" for strings.
IsSubstring(a, b) ==
    \E i \in 0..(Len(b) - Len(a)) : SubSeq(b, i + 1, i + Len(a)) = a

Abs(n) == IF n < 0 THEN 0 - n ELSE n

(***************************************************************************)
(* Home pages.  A page is what the hero-product extraction reads from its  *)
(* markup: for each selector of the three selector lists, the titles that  *)
(* _extract_hero_product_from_element returns for the elements the         *)
(* selector matches (<< >>: the element gives no product), and the alt     *)
(* texts, headings and link texts the synthetic products are made from.    *)
(* raises: building or querying the document raises inside the parser.     *)
(***************************************************************************)
T_shoes == <<"s", "h", "o", "e", "s">>
T_shoes_x == <<"s", "h", "o", "e", "s", " ", "x">>
T_shoes_on_sale == <<"s", "h", "o", "e", "s", " ", "o", "n", " ", "s", "a", "l", "e">>
T_bags == <<"b", "a", "g", "s">>
T_hats == <<"h", "a", "t", "s">>
T_ab == <<"a", "b">>

Letters == <<"a", "b", "c", "d", "e", "f", "g", "h", "i", "j", "k", "l", "m", "n", "o", "p">>

\* Number of product elements on the largest home page.
ManyElements == 12

ItemTitles(n) == [i \in 1..n |-> <<"i", "t", "e", "m", " ", Letters[i]>>]

NoMarkup ==
    [raises |-> FALSE, primary |-> << >>, secondary |-> << >>, fallback |-> << >>,
     images |-> << >>, headings |-> << >>, links |-> << >>]

HomePages ==
    << \* 1: no matching markup, no images, no headings, no links
       NoMarkup,
       \* 2: parsing raises
       [NoMarkup EXCEPT !.raises = TRUE],
       \* 3: one hero element, one near-duplicate of it, an untitled element;
       \*    one usable image, one heading
       [NoMarkup EXCEPT !.primary = << <<T_shoes, T_shoes_x>>, << << >> >> >>,
                        !.images = <<T_ab, T_bags>>,
                        !.headings = <<T_hats>>],
       \* 4: nothing under the primary selectors, product cards under the
       \*    secondary ones, product links under the fallback ones
       [NoMarkup EXCEPT !.secondary = << <<T_shoes>>, <<T_shoes_on_sale, T_bags>> >>,
                        !.fallback = << <<T_hats>> >>,
                        !.links = <<T_hats>>],
       \* 5: a grid of many products under one primary selector
       [NoMarkup EXCEPT !.primary = << ItemTitles(ManyElements), <<T_bags>> >>,
                        !.secondary = << <<T_hats>> >>],
       \* 6: one hero element, and an image whose alt text repeats its title
       [NoMarkup EXCEPT !.primary = << <<T_shoes>> >>,
                        !.images = <<T_shoes_x>>] >>

HomeBody(k) == [len |-> 500, home |-> k, faqs |-> 0, products |-> 0]

(***************************************************************************)
(* ShopifyParser: hero products (services/parser.py)                       *)
(***************************************************************************)
\* A HeroProduct, reduced to its title, its price and where it came from.
HeroProduct(title, price, source) == [title |-> title, price |-> price, source |-> source]

\* "if hero_product and hero_product.title and len(hero_product.title.strip()) > 2"
HeroAccepted(title) == Len(title) > 2

\* The products one selector contributes: one per matched element whose
\* extraction gives an acceptable title.
RECURSIVE HeroesOfElements(_)
HeroesOfElements(titles) ==
    IF titles = << >> THEN << >>
    ELSE (IF HeroAccepted(Head(titles))
          THEN << HeroProduct(Head(titles), "", "page") >>
          ELSE << >>) \o HeroesOfElements(Tail(titles))

\* "for selector in selectors: if len(hero_products) >= 10: break; ..."
RECURSIVE SelectorLoop(_, _)
SelectorLoop(hero_products, selectors) ==
    IF selectors = << >> \/ Len(hero_products) >= 10 THEN hero_products
    ELSE SelectorLoop(hero_products \o HeroesOfElements(Head(selectors)), Tail(selectors))

\* The three passes: primary selectors, then secondary and fallback ones
\* while fewer than 2 products were found.
CollectHeroes(page) ==
    LET after1 == SelectorLoop(<< >>, page.primary)
        after2 == IF Len(after1) < 2 THEN SelectorLoop(after1, page.secondary) ELSE after1
    IN IF Len(after2) < 2 THEN SelectorLoop(after2, page.fallback) ELSE after2

\* "Remove duplicates based on title similarity": a title is dropped when it
\* contains or is contained in a title already seen and their lengths differ
\* by less than 5.
IsDuplicateTitle(title_key, seen_titles) ==
    \E seen_title \in seen_titles :
        /\ IsSubstring(title_key, seen_title) \/ IsSubstring(seen_title, title_key)
        /\ Abs(Len(title_key) - Len(seen_title)) < 5

RECURSIVE UniqueHeroes(_, _, _)
UniqueHeroes(hero_products, seen_titles, unique_heroes) ==
    IF hero_products = << >> THEN unique_heroes
    ELSE LET hero == Head(hero_products)
         IN IF hero.title # << >> /\ ~IsDuplicateTitle(hero.title, seen_titles)
            THEN UniqueHeroes(Tail(hero_products), seen_titles \cup {hero.title},
                              Append(unique_heroes, hero))
            ELSE UniqueHeroes(Tail(hero_products), seen_titles, unique_heroes)

Digits == <<"1", "2", "3", "4", "5", "6", "7", "8", "9">>

\* _create_emergency_hero_product(number): the title is one of five
\* templates, the price alternates with the parity of the number.
create_emergency_hero_product(number) ==
    HeroProduct(<<"e", "m", "e", "r", "g", "e", "n", "c", "y", " ",
                  Digits[((number - 1) % 5) + 1], " ", "#", Digits[number]>>,
                IF number % 2 = 0 THEN "Starting at $29.99" ELSE "Contact for pricing",
                "emergency")

\* _create_emergency_hero_products(count)
create_emergency_hero_products(count) ==
    [i \in 1..count |-> create_emergency_hero_product(i)]

\* One method of _create_synthetic_hero_products: walk the first `window`
\* texts, make a product of each usable one, stop at count_needed.
RECURSIVE SyntheticFrom(_, _, _, _, _)
SyntheticFrom(synthetic_products, texts, min_len, source, count_needed) ==
    IF texts = << >> \/ Len(synthetic_products) >= count_needed THEN synthetic_products
    ELSE SyntheticFrom(
            IF Len(Head(texts)) > min_len
            THEN Append(synthetic_products, HeroProduct(Take(Head(texts), 100), "", source))
            ELSE synthetic_products,
            Tail(texts), min_len, source, count_needed)

\* The "Store Feature #n" products that complete the synthetic list.
RECURSIVE BasicSynthetic(_, _)
BasicSynthetic(synthetic_products, count_needed) ==
    IF Len(synthetic_products) >= count_needed THEN synthetic_products
    ELSE BasicSynthetic(
            Append(synthetic_products,
                   HeroProduct(<<"f", "e", "a", "t", "u", "r", "e", " ", "#",
                                 Digits[Len(synthetic_products) + 1]>>, "", "basic")),
            count_needed)

\* _create_synthetic_hero_products(soup, count_needed): images with alt text,
\* then headings, then links, then the basic products.
create_synthetic_hero_products(page, count_needed) ==
    LET m1 == SyntheticFrom(<< >>, Take(page.images, count_needed * 3), 2, "image",
                            count_needed)
        m2 == IF Len(m1) < count_needed
              THEN SyntheticFrom(m1, Take(page.headings, count_needed * 2), 3, "heading",
                                 count_needed)
              ELSE m1
        m3 == IF Len(m2) < count_needed
              THEN SyntheticFrom(m2, Take(page.links, count_needed * 2), 3, "link",
                                 count_needed)
              ELSE m2
    IN Take(BasicSynthetic(m3, count_needed), count_needed)

\* "while len(unique_heroes) < 2: append(_create_emergency_hero_product(len + 1))"
RECURSIVE EmergencyFill(_)
EmergencyFill(unique_heroes) ==
    IF Len(unique_heroes) >= 2 THEN unique_heroes
    ELSE EmergencyFill(Append(unique_heroes,
                              create_emergency_hero_product(Len(unique_heroes) + 1)))

\* parse_hero_products_from_html(html_content)
parse_hero_products_from_html(page) ==
    LET unique == UniqueHeroes(CollectHeroes(page), {}, << >>)
        padded == IF Len(unique) < 2
                  THEN unique \o create_synthetic_hero_products(page, 2 - Len(unique))
                  ELSE unique
        unique_heroes == IF page.raises
                         THEN create_emergency_hero_products(2)
                         ELSE EmergencyFill(padded)
    IN Take(EmergencyFill(unique_heroes), 10)

(***************************************************************************)
(* CompetitorFinder (services/competitor_finder.py)                        *)
(***************************************************************************)
\* The stores of the model, by domain.
Domains == {"allbirds.com", "beautyshop.com", "sallybeauty.com", "acme.com"}

\* What the string tests of the finder make of a domain:
\*   direct    the domain is a key of mock_competitors
\*   industry  the industry whose keywords _get_mock_competitors finds in it
\*   partial   the key of mock_competitors a part of which it contains
\*   leaders   the industry whose keywords _generate_industry_competitors finds
\*   enhanced  _get_enhanced_industry_competitors finds one of its keywords in
\*             the search query built from the domain
DomainTraits(domain) ==
    CASE domain = "allbirds.com" ->
           [direct |-> TRUE, industry |-> "none", partial |-> "none",
            leaders |-> "general", enhanced |-> FALSE]
      [] domain \in {"beautyshop.com", "sallybeauty.com"} ->
           [direct |-> FALSE, industry |-> "beauty", partial |-> "none",
            leaders |-> "beauty", enhanced |-> TRUE]
      [] OTHER ->
           [direct |-> FALSE, industry |-> "none", partial |-> "none",
            leaders |-> "general", enhanced |-> FALSE]

\* self.mock_competitors
mock_competitors(key) ==
    CASE key = "allbirds.com" ->
           <<"bombas.com", "rothy.com", "atoms.com", "vessi.com", "greats.com">>
      [] key = "beauty" ->
           <<"sephora.com", "ulta.com", "sallybeauty.com", "dermstore.com", "beautylish.com">>
      [] OTHER -> << >>

\* A competitor descriptor, reduced to its domain and its source (number: the
\* n of the fabricated "competitor<n>-<domain>.example.com", else 0).
Competitor(domain, source) == [domain |-> domain, source |-> source, number |-> 0]

RECURSIVE MapCompetitors(_, _)
MapCompetitors(domains, source) ==
    IF domains = << >> THEN << >>
    ELSE << Competitor(Head(domains), source) >> \o MapCompetitors(Tail(domains), source)

\* _get_mock_competitors(domain, limit): direct match, then industry
\* keywords, then partial match, else nothing.
get_mock_competitors(domain, limit) ==
    LET traits == DomainTraits(domain)
    IN IF traits.direct THEN Take(mock_competitors(domain), limit)
       ELSE IF traits.industry # "none" THEN Take(mock_competitors(traits.industry), limit)
       ELSE IF traits.partial # "none" THEN Take(mock_competitors(traits.partial), limit)
       ELSE << >>

\* _get_enhanced_industry_competitors(query): the first category's list when
\* any keyword occurs in the query, else the default list; three entries.
get_enhanced_industry_competitors(domain) ==
    IF DomainTraits(domain).enhanced
    THEN <<"glossier.com", "rarebeauty.com", "fentybeauty.com">>
    ELSE <<"shopify.com", "amazon.com", "alibaba.com">>

\* _perform_web_search(query): what the five sources appended (found; each
\* result is the domain extract_domain gives for its URL, "" when it gives
\* none), the enhanced list when they appended nothing, cut to three.
perform_web_search(domain, found) ==
    Take(IF found = << >> THEN get_enhanced_industry_competitors(domain) ELSE found, 3)

\* The search queries of _search_web_competitors.
SearchQueries == 4

\* "if result_domain and result_domain.replace('www.', '') != domain.replace('www.', '')"
UsableResult(result_domain, domain) == result_domain # "" /\ result_domain # domain

RECURSIVE ResultLoop(_, _, _, _)
ResultLoop(competitors, search_results, domain, needed) ==
    IF search_results = << >> \/ Len(competitors) >= needed THEN competitors
    ELSE ResultLoop(
            IF UsableResult(Head(search_results), domain)
            THEN Append(competitors, Competitor(Head(search_results), "Web Search"))
            ELSE competitors,
            Tail(search_results), domain, needed)

RECURSIVE QueryLoop(_, _, _, _, _)
QueryLoop(competitors, query, domain, needed, web) ==
    IF query > SearchQueries \/ Len(competitors) >= needed THEN competitors
    ELSE QueryLoop(ResultLoop(competitors, perform_web_search(domain, web[query]),
                              domain, needed),
                   query + 1, domain, needed, web)

\* _search_web_competitors(domain, needed); web[q] is what the sources
\* return for query q.
search_web_competitors(domain, needed, web) == QueryLoop(<< >>, 1, domain, needed, web)

\* _generate_industry_competitors(domain, needed)
generate_industry_competitors(domain, needed) ==
    LET industry == DomainTraits(domain).leaders
        industry_leaders ==
            CASE industry = "beauty" -> <<"sephora.com", "ulta.com", "beautylish.com">>
              [] industry = "fashion" -> <<"zara.com", "hm.com", "uniqlo.com">>
              [] industry = "fitness" -> <<"nike.com", "adidas.com", "lululemon.com">>
              [] industry = "home" -> <<"ikea.com", "wayfair.com", "westelm.com">>
              [] industry = "tech" -> <<"apple.com", "bestbuy.com", "newegg.com">>
              [] OTHER -> << >>
    IN MapCompetitors(Take(industry_leaders, needed), "Industry Analysis")

\* The methods of class CompetitorFinder: what "self.<name>" resolves on the
\* finder the analyser and the routes use.  _create_ai_generated_competitors,
\* _create_emergency_competitor and _create_emergency_competitors are methods
\* of class GoogleSearchCompetitorFinder, which CompetitorFinder neither is nor
\* inherits from.
CompetitorFinderMethods ==
    { "find_competitors", "_generate_competitor_title", "_generate_competitor_description",
      "_determine_category", "_search_web_competitors", "_perform_web_search",
      "_search_duckduckgo_engine", "_search_reddit_insights", "_search_github_resources",
      "_search_business_directories", "_search_analysis_platforms",
      "_get_enhanced_industry_competitors", "_extract_reddit_competitors",
      "_extract_github_competitors", "_extract_directory_competitors",
      "_extract_analysis_competitors", "_generate_industry_competitors",
      "_create_fallback_competitors", "_get_mock_competitors",
      "_generate_similar_competitors", "search_competitors_by_keywords",
      "get_competitor_insights", "extract_business_keywords" }

\* GoogleSearchCompetitorFinder._create_ai_generated_competitors(domain, count)
create_ai_generated_competitors(domain, count) ==
    LET suffix == <<"hub.com", "pro.com", "express.com", "elite.com", "direct.com">>
    IN [i \in 1..count |-> Competitor(suffix[((i - 1) % 5) + 1], "AI Generated")]

\* GoogleSearchCompetitorFinder._create_emergency_competitor(domain, number)
create_emergency_competitor(domain, number) ==
    [domain |-> domain, source |-> "Emergency Fallback", number |-> number]

\* GoogleSearchCompetitorFinder._create_emergency_competitors(website_url, count)
create_emergency_competitors(website_url, count) ==
    [i \in 1..count |-> create_emergency_competitor(website_url, i)]

RECURSIVE EmergencyCompetitorFill(_, _)
EmergencyCompetitorFill(competitors, domain) ==
    IF Len(competitors) >= 2 THEN competitors
    ELSE EmergencyCompetitorFill(
            Append(competitors, create_emergency_competitor(domain, Len(competitors) + 1)),
            domain)

\* competitors.sort(key=...): a stable sort by the rank of the source.
SourceRank == <<"Database", "Web Search", "Industry Analysis", "AI Generated",
                "Emergency Fallback">>
SortBySource(competitors) ==
    LET OfRank(r) == SelectSeq(competitors, LAMBDA c : c.source = SourceRank[r])
    IN OfRank(1) \o OfRank(2) \o OfRank(3) \o OfRank(4) \o OfRank(5)

\* What a call of find_competitors does: it returns a list, or it raises.
Returns(list) == [called |-> TRUE, raised |-> FALSE, list |-> list]
Raises == [called |-> TRUE, raised |-> TRUE, list |-> << >>]
NotCalled == [called |-> FALSE, raised |-> FALSE, list |-> << >>]

\* The except branch of find_competitors: self._create_emergency_competitors.
find_competitors_except(website_url) ==
    IF "_create_emergency_competitors" \in CompetitorFinderMethods
    THEN Returns(create_emergency_competitors(website_url, 2))
    ELSE Raises

\* find_competitors(website_url, limit): the four tiers, the emergency
\* loop, the sort and the cut; an exception in the try block (here: a method
\* the finder does not have) goes to the except branch.
find_competitors(website_url, limit, web) ==
    LET domain == website_url
        tier1 == MapCompetitors(get_mock_competitors(domain, limit), "Database")
        tier2 == IF Len(tier1) < 2
                 THEN tier1 \o search_web_competitors(domain, Max(2 - Len(tier1), 3), web)
                 ELSE tier1
        tier3 == IF Len(tier2) < 2
                 THEN tier2 \o generate_industry_competitors(domain, Max(2 - Len(tier2), 2))
                 ELSE tier2
        tier4 == IF Len(tier3) < 2
                 THEN tier3 \o create_ai_generated_competitors(domain, Max(2 - Len(tier3), 2))
                 ELSE tier3
        sorted == SortBySource(EmergencyCompetitorFill(tier4, domain))
        final_count == Max(2, Min(Len(sorted), limit))
    IN IF /\ Len(tier3) < 2
          /\ "_create_ai_generated_competitors" \notin CompetitorFinderMethods
       THEN find_competitors_except(website_url)
       ELSE IF /\ Len(tier4) < 2
               /\ "_create_emergency_competitor" \notin CompetitorFinderMethods
       THEN find_competitors_except(website_url)
       ELSE Returns(Take(sorted, final_count))

\* What the search sources can return for one query: nothing (every source
\* failed), a page of the target store itself and a result without a usable
\* URL, or a page of the target and one of another site.
WebResults(domain) ==
    { << >>, <<domain, "">>, <<domain, "github-curated-alternative.com">> }

WebScripts(domain) == [1..SearchQueries -> WebResults(domain)]

(***************************************************************************)
(* The pages a store serves.  Every candidate URL is requested; the home   *)
(* page and the pages of ServedPages may come back with content, every     *)
(* other candidate is absent (404) in the model.                           *)
(***************************************************************************)
CandidateUrls == { urls_to_scrape[i] : i \in 1..Len(urls_to_scrape) }

PolicyPages ==
    { "/pages/privacy-policy", "/pages/privacy", "/pages/refund-policy", "/pages/returns" }
FaqPages == { "/pages/faq", "/pages/help", "/pages/support" }
ServedPages == { "/products.json" } \cup PolicyPages \cup FaqPages

\* At most this many pages of ServedPages come back with content.
MaxPagesFetched == 2

PolicyBody(len) == [len |-> len, home |-> 0, faqs |-> 0, products |-> 0]
FaqBody(n) == [len |-> 500, home |-> 0, faqs |-> n, products |-> 0]
FeedBody(n) == [len |-> 500, home |-> 0, faqs |-> 0, products |-> n]

\* The non-empty bodies a URL can come back with.
Bodies(u) ==
    IF u = "/" THEN { HomeBody(k) : k \in 1..Len(HomePages) }
    ELSE IF u \in PolicyPages THEN { PolicyBody(80), PolicyBody(500), PolicyBody(2500) }
    ELSE IF u \in FaqPages THEN { FaqBody(0), FaqBody(12), FaqBody(25) }
    ELSE { FeedBody(2) }

ServedBodies == UNION { Bodies(u) : u \in ServedPages }

\* What a fetch task returns for u: None, or its content with metadata.
FetchOutcomes(u) == { None } \cup { Wrap(u, body) : body \in Bodies(u) }

(***************************************************************************)
(* RealtimeStoreAnalyzer (services/realtime_analyzer.py)                   *)
(***************************************************************************)
\* "v and v.get('content')": the entry is a dictionary whose 'content' is a
\* non-empty text.  A JSON entry has no 'content' key.
HasContent(v) ==
    IF v = None THEN FALSE
    ELSE IF v.content = None THEN FALSE
    ELSE Truthy(v.content)

\* len([k for k, v in scraped_content.items() if v and v.get('content')])
pages_analyzed(content) ==
    Cardinality({ u \in DOMAIN content : HasContent(content[u]) })

\* "main_content = scraped_content.get(main_url, {}); main_html =
\* main_content.get('content', '')": the home page's text.  The key is in the
\* mapping, so an absent home page gives None and None.get raises.
get_main_html_NoneAsEmpty(content) ==
    IF content["/"] = None THEN [raised |-> FALSE, html |-> EmptyBody]
    ELSE [raised |-> FALSE, html |-> content["/"].content]
get_main_html(content) ==
    IF content["/"] = None THEN [raised |-> TRUE, html |-> EmptyBody]
    ELSE [raised |-> FALSE, html |-> content["/"].content]

\* The product catalogue: parse_products_json of the feed when the feed entry
\* is a dictionary with a non-empty 'json'.
product_catalog(content) ==
    LET products_data == content["/products.json"]
    IN IF products_data = None THEN << >>
       ELSE IF products_data.json = None THEN << >>
       ELSE [i \in 1..products_data.json.products |-> [id |-> i]]

\* The hero products of the record: the parser's list for the home page (two
\* emergency products without a home page), completed to two.
aggregate_hero_products_Unpadded(main_html) ==
    IF ~Truthy(main_html) \/ HomePages[main_html.home].raises THEN << >>
    ELSE UniqueHeroes(CollectHeroes(HomePages[main_html.home]), {}, << >>)
aggregate_hero_products(main_html) ==
    LET hero_products == IF ~Truthy(main_html)
                         THEN create_emergency_hero_products(2)
                         ELSE parse_hero_products_from_html(HomePages[main_html.home])
    IN IF Len(hero_products) < 2
       THEN hero_products \o create_emergency_hero_products(2 - Len(hero_products))
       ELSE hero_products

\* _parse_comprehensive_policies: policy_urls with their policy_mappings.
policy_urls ==
    << <<"/pages/privacy-policy", "privacy">>, <<"/pages/privacy", "privacy">>,
       <<"/pages/terms-of-service", "terms">>, <<"/pages/terms", "terms">>,
       <<"/pages/refund-policy", "return">>, <<"/pages/returns", "return">>,
       <<"/pages/shipping-policy", "shipping">>, <<"/pages/shipping", "shipping">> >>

RECURSIVE PolicyLoop(_, _, _)
PolicyLoop(policies, pairs, content) ==
    IF pairs = << >> THEN policies
    ELSE LET url == Head(pairs)[1]
             found == /\ url \in DOMAIN content
                      /\ HasContent(content[url])
                      /\ content[url].content.len > 100
         IN PolicyLoop(
               IF found
               THEN Append(policies, [type |-> Head(pairs)[2], url |-> url,
                                      content_len |-> Min(content[url].content.len, 2000)])
               ELSE policies,
               Tail(pairs), content)

parse_comprehensive_policies_Untruncated(content) ==
    LET policies == PolicyLoop(<< >>, policy_urls, content)
    IN [i \in 1..Len(policies) |->
          [policies[i] EXCEPT !.content_len = content[policies[i].url].content.len]]
parse_comprehensive_policies(content) == PolicyLoop(<< >>, policy_urls, content)

\* ShopifyParser.parse_faqs_from_html: the FAQs of one page, at most 20.
parse_faqs_from_html(url, body) ==
    Take([i \in 1..body.faqs |-> [page |-> url, no |-> i]], 20)

faq_urls == <<"/pages/faq", "/pages/help", "/pages/support">>

RECURSIVE FaqLoop(_, _, _)
FaqLoop(faqs, pages, content) ==
    IF pages = << >> THEN faqs
    ELSE LET url == Head(pages)
         IN FaqLoop(
               IF url \in DOMAIN content /\ HasContent(content[url])
               THEN faqs \o parse_faqs_from_html(url, content[url].content)
               ELSE faqs,
               Tail(pages), content)

\* _parse_comprehensive_faqs: the FAQs of the FAQ pages, or three default
\* ones when there are none.
parse_comprehensive_faqs_DefaultsAppended(content) ==
    FaqLoop(<< >>, faq_urls, content) \o [i \in 1..3 |-> [page |-> "default", no |-> i]]
parse_comprehensive_faqs(content) ==
    LET faqs == FaqLoop(<< >>, faq_urls, content)
    IN IF faqs = << >> THEN [i \in 1..3 |-> [page |-> "default", no |-> i]] ELSE faqs

\* _parse_comprehensive_content up to the competitor search: the parts of
\* the record read from the fetched pages, or the exception that ends it.
parse_pages(domain, content) ==
    LET main == get_main_html(content)
    IN IF main.raised
       THEN [raised |-> TRUE, record |-> NoRecord]
       ELSE [raised |-> FALSE,
             record |->
               [type |-> "BrandContext",
                website_url |-> domain,
                pages_analyzed |-> pages_analyzed(content),
                product_catalog |-> product_catalog(content),
                product_count |-> Len(product_catalog(content)),
                hero_products |-> aggregate_hero_products(main.html),
                policies |-> parse_comprehensive_policies(content),
                faqs |-> parse_comprehensive_faqs(content),
                competitors |-> << >>]]

(***************************************************************************)
(* BrandCRUD and the tables (database/crud.py, database/models.py)         *)
(***************************************************************************)
EmptyDb == [brands |-> {}, rows |-> {}]

\* The rows _add_related_data inserts for a record: one per element of each
\* list, with the brand's id as foreign key.  no is the analysis that wrote
\* the row.
RelatedRows(id, record, no) ==
    LET Rows(table, list) ==
            { [brand_id |-> id, table |-> table, idx |-> i, value |-> list[i], no |-> no] :
                i \in 1..Len(list) }
    IN Rows("products", record.product_catalog)
       \cup Rows("hero_products", record.hero_products)
       \cup Rows("policies", record.policies)
       \cup Rows("faqs", record.faqs)

\* get_brand_by_url(db, website_url): the id of the brand row, 0 for None.
get_brand_by_url_NotFound(database, website_url) == 0
get_brand_by_url(database, website_url) ==
    LET found == { b \in database.brands : b.website_url = website_url }
    IN IF found = {} THEN 0 ELSE (CHOOSE b \in found : TRUE).id

\* delete_brand(db, brand_id): db.delete(brand) removes the brand row and,
\* by the relationships' cascade "all, delete-orphan", its related rows.
delete_brand_NoCascade(database, id) ==
    [database EXCEPT !.brands = { b \in @ : b.id # id }]
delete_brand(database, id) ==
    [brands |-> { b \in database.brands : b.id # id },
     rows |-> { r \in database.rows : r.brand_id # id }]

\* The primary key of a new brand row (SQLite: one more than the largest).
NextBrandId(database) ==
    IF database.brands = {} THEN 1
    ELSE 1 + (CHOOSE i \in { b.id : b \in database.brands } :
                \A b \in database.brands : b.id <= i)

BrandRow(id, record, no) ==
    [id |-> id, website_url |-> record.website_url,
     pages_analyzed |-> record.pages_analyzed, no |-> no]

\* _create_brand(db, brand_data)
create_brand(database, record, no) ==
    LET id == NextBrandId(database)
    IN [brands |-> database.brands \cup { BrandRow(id, record, no) },
        rows |-> database.rows \cup RelatedRows(id, record, no)]

\* _clear_related_data(db, brand)
clear_related_data(database, id) ==
    [database EXCEPT !.rows = { r \in @ : r.brand_id # id }]

\* _update_brand(db, existing_brand, brand_data)
update_brand(database, id, record, no) ==
    LET cleared == clear_related_data(database, id)
    IN [brands |-> { b \in cleared.brands : b.id # id } \cup { BrandRow(id, record, no) },
        rows |-> cleared.rows \cup RelatedRows(id, record, no)]

\* create_or_update_brand(db, brand_data)
create_or_update_brand(database, record, no) ==
    LET existing_brand == get_brand_by_url(database, record.website_url)
    IN IF existing_brand # 0
       THEN update_brand(database, existing_brand, record, no)
       ELSE create_brand(database, record, no)

\* The list a query of get_brand_context reads from one table: the rows of
\* the brand in the order they were inserted.
QueryAll(database, id, table) ==
    LET found == { r \in database.rows : r.brand_id = id /\ r.table = table }
    IN [i \in 1..Cardinality(found) |-> (CHOOSE r \in found : r.idx = i).value]

\* get_brand_context(db, website_url): the BrandContext rebuilt from the
\* brand row and its related rows, None without a brand row.  No table holds
\* competitors and none are passed to BrandContext: the field takes its
\* default, the empty list.
get_brand_context(database, website_url) ==
    LET id == get_brand_by_url(database, website_url)
        brand == CHOOSE b \in database.brands : b.id = id
    IN IF id = 0 THEN NoRecord
       ELSE [type |-> "BrandContext",
             website_url |-> brand.website_url,
             pages_analyzed |-> brand.pages_analyzed,
             product_catalog |-> QueryAll(database, id, "products"),
             product_count |-> Len(QueryAll(database, id, "products")),
             hero_products |-> QueryAll(database, id, "hero_products"),
             policies |-> QueryAll(database, id, "policies"),
             faqs |-> QueryAll(database, id, "faqs"),
             competitors |-> << >>]

\* The database steps of analyze_and_store_shop that can fail.
DbFaults == { "none", "lookup", "delete", "create", "commit", "refresh" }

NoSession == [opened |-> FALSE, existing_brand |-> 0, fault |-> "none", closed |-> FALSE]

\* The database block of analyze_and_store_shop (save_to_db is true): look the
\* URL up, delete the stored brand and commit, create the new one, commit,
\* refresh, read its id.  A failing step goes to the except branch: rollback
\* of what is not yet committed, brand_id = None.  The session is closed in
\* every case.
save_to_database(database, url, record, no, fault) ==
    LET existing_brand == get_brand_by_url(database, url)
        deleted == IF existing_brand # 0 THEN delete_brand(database, existing_brand)
                   ELSE database
        created == create_or_update_brand(deleted, record, no)
        Outcome(d, id, e) ==
            [db |-> d, brand_id |-> id,
             session |-> [opened |-> TRUE, existing_brand |-> e, fault |-> fault,
                          closed |-> TRUE]]
    IN IF fault = "lookup" THEN Outcome(database, 0, 0)
       ELSE IF fault = "delete" /\ existing_brand # 0
       THEN Outcome(database, 0, existing_brand)
       ELSE IF fault \in {"create", "commit"} THEN Outcome(deleted, 0, existing_brand)
       ELSE IF fault = "refresh" THEN Outcome(created, 0, existing_brand)
       ELSE Outcome(created, get_brand_by_url(created, url), existing_brand)

(***************************************************************************)
(* analyze_and_store_shop, in four steps: the fetch of the candidate URLs,  *)
(* the aggregation of the pages, the competitor search, the database block *)
(* with the result.                                                        *)
(***************************************************************************)
NoRequest == [domain |-> "none", save_to_db |-> FALSE, no |-> 0]

\* What routes.analyze_brand / routes.analyze_store answer.
NoReply == [status |-> 0, brand_data |-> NoRecord]
HTTPException(status_code) == [status |-> status_code, brand_data |-> NoRecord]
Reply(record) == [status |-> 200, brand_data |-> record]

\* The dictionary returned on success, and the one of the except branch.
SuccessResult(id, save_to_db, content) ==
    [success |-> TRUE, brand_id |-> id, saved_to_database |-> save_to_db,
     pages_analyzed |-> pages_analyzed(content)]
FailureResult ==
    [success |-> FALSE, brand_id |-> 0, saved_to_database |-> FALSE, pages_analyzed |-> 0]

\* A request arrives and the candidate URLs are fetched: every URL gets an
\* entry, None or its content.  At most max_requests requests are served, for
\* the stores of domains, whose home page answers with one of homes and which
\* serve at most max_pages of pages.
analyze_fetch(max_requests, domains, homes, pages, max_pages) ==
    /\ pc \in {"idle", "done"}
    /\ request.no < max_requests
    /\ \E domain \in domains, save_to_db \in BOOLEAN, home \in homes,
          served \in SUBSET pages :
         /\ Cardinality(served) <= max_pages
         /\ \E body \in [served -> ServedBodies] :
              /\ \A u \in served : body[u] \in Bodies(u)
              /\ scraped_content' =
                   [u \in CandidateUrls |->
                      IF u = "/" THEN home
                      ELSE IF u \in served THEN Wrap(u, body[u])
                      ELSE None]
         /\ request' = [domain |-> domain, save_to_db |-> save_to_db, no |-> request.no + 1]
    /\ pc' = "fetched"
    /\ competitors_out' = NotCalled
    /\ brand_context' = NoRecord
    /\ brand_id' = 0
    /\ session' = NoSession
    /\ returned' = << >>
    /\ response' = NoReply
    /\ UNCHANGED db
    /\ UNCHANGED fetch_vars
    /\ UNCHANGED parser_vars
    /\ UNCHANGED shared_vars

\* "scraped_content = await self.scraper.fetch_multiple_pages(urls_to_scrape)"
\* resumes: analyze_and_store_shop holds the mapping the fetcher returned and
\* goes on to the extraction.
analyze_await_fetch ==
    /\ pc = "idle"
    /\ fpc = "returned"
    /\ scraped_content' = scraped_data
    /\ pc' = "fetched"
    /\ UNCHANGED <<request, competitors_out, brand_context, brand_id, session,
                   returned, db, response>>
    /\ UNCHANGED fetch_vars
    /\ UNCHANGED parser_vars
    /\ UNCHANGED shared_vars

\* _parse_comprehensive_content starts: the products, hero products,
\* policies and FAQs are read from the fetched pages, up to the call of
\* find_competitors; if it raises, the except branch of
\* analyze_and_store_shop returns the failure.
analyze_parse ==
    /\ pc = "fetched"
    /\ LET parsed == parse_pages(request.domain, scraped_content)
       IN IF DOMAIN scraped_content = {} \/ parsed.raised
          THEN /\ pc' = "done"
               /\ returned' = Append(returned, FailureResult)
               /\ UNCHANGED brand_context
          ELSE /\ pc' = "competitors"
               /\ brand_context' = parsed.record
               /\ UNCHANGED returned
    /\ UNCHANGED <<request, scraped_content, competitors_out, brand_id, session, db,
                   response>>
    /\ UNCHANGED fetch_vars
    /\ UNCHANGED parser_vars
    /\ UNCHANGED shared_vars

\* The search results find_competitors may meet: only a domain without two
\* database competitors is searched for.
WebScriptsFor(domain) ==
    IF Len(get_mock_competitors(domain, 5)) < 2 THEN WebScripts(domain)
    ELSE { [q \in 1..SearchQueries |-> << >>] }

\* find_competitors(domain, limit=5) returns and the BrandContext is built,
\* or it raises and the except branch of analyze_and_store_shop returns the
\* failure.
analyze_competitors ==
    /\ pc = "competitors"
    /\ \E web \in WebScriptsFor(request.domain) :
         LET competitors == find_competitors(request.domain, 5, web)
         IN /\ competitors_out' = competitors
            /\ IF competitors.raised
               THEN /\ pc' = "done"
                    /\ brand_context' = NoRecord
                    /\ returned' = Append(returned, FailureResult)
               ELSE /\ pc' = "parsed"
                    /\ brand_context' = [brand_context EXCEPT !.competitors = competitors.list]
                    /\ UNCHANGED returned
    /\ UNCHANGED <<request, scraped_content, brand_id, session, db, response>>
    /\ UNCHANGED fetch_vars
    /\ UNCHANGED parser_vars
    /\ UNCHANGED shared_vars

\* The database block when save_to_db is set, then the result dictionary.
analyze_store ==
    /\ pc = "parsed"
    /\ IF request.save_to_db
       THEN \E fault \in DbFaults :
              LET out == save_to_database(db, request.domain, brand_context,
                                          request.no, fault)
              IN /\ db' = out.db
                 /\ brand_id' = out.brand_id
                 /\ session' = out.session
       ELSE /\ brand_id' = 0
            /\ UNCHANGED <<db, session>>
    /\ returned' = Append(returned,
                          SuccessResult(brand_id', request.save_to_db, scraped_content))
    /\ pc' = "done"
    /\ UNCHANGED <<request, scraped_content, competitors_out, brand_context, response>>
    /\ UNCHANGED fetch_vars
    /\ UNCHANGED parser_vars
    /\ UNCHANGED shared_vars

\* routes.analyze_store after its call of analyze_and_store_shop(url,
\* save_to_db=True) has returned: a failure result is answered with status
\* 500; otherwise the record is read back with get_brand_context and
\* answered, or status 500 when there is none.
route_respond ==
    /\ pc = "done"
    /\ request.save_to_db
    /\ response = NoReply
    /\ LET analysis_result == returned[Len(returned)]
           record == get_brand_context(db, request.domain)
       IN response' = IF ~analysis_result.success THEN HTTPException(500)
                      ELSE IF record = NoRecord THEN HTTPException(500)
                      ELSE Reply(record)
    /\ UNCHANGED <<pc, request, scraped_content, competitors_out, brand_context,
                   brand_id, session, returned, db>>
    /\ UNCHANGED fetch_vars
    /\ UNCHANGED parser_vars
    /\ UNCHANGED shared_vars

(***************************************************************************)
(* Concurrent requests on the analyzer of api/realtime_routes.py.  The     *)
(* module creates one RealtimeStoreAnalyzer; every request awaits          *)
(* analyzer.analyze_and_store_shop on it.  The coroutines run on one event *)
(* loop: a call runs until it suspends, in fetch_multiple_pages and in     *)
(* find_competitors, and another call may run meanwhile.  The database     *)
(* block has no await.                                                     *)
(***************************************************************************)
\* Number of concurrent calls.
MaxRuns == 2

Runs == 1..MaxRuns

SharedUrls == {"allbirds.com", "acme.com"}

NewRun ==
    [pc |-> "new", url |-> "none", save_to_db |-> FALSE, scraper |-> 0,
     base_url |-> "none", session |-> NoSession, brand_id |-> 0, result |-> None]

\* WebScraper.__aexit__: "if self.session: await self.session.close()".
aexit_SessionLeftOpen(http_session) == http_session
aexit(http_session) == IF http_session = "open" THEN "closed" ELSE http_session

\* The record _parse_comprehensive_content builds, as far as the database and
\* the base URL go: the URLs of its one product were resolved against
\* base_url.
SharedRecord(url, base_url) ==
    [type |-> "BrandContext", website_url |-> url, pages_analyzed |-> 1,
     product_catalog |-> << [base_url |-> base_url] >>, hero_products |-> << >>,
     policies |-> << >>, faqs |-> << >>, competitors |-> << >>]

\* analyze_and_store_shop up to its first suspension: the scraper and the
\* parser are stored in the analyzer, the scraper's session is opened by
\* "async with self.scraper", and fetch_multiple_pages waits for the pages.
\* The request is for one of stores, with one of flags as save_to_db.
shared_start(r, stores, flags) ==
    /\ runs[r].pc = "new"
    /\ \E url \in stores, save_to_db \in flags :
         /\ self_parser' = url
         /\ self_scraper' = Len(scrapers) + 1
         /\ scrapers' = Append(scrapers, "open")
         /\ runs' = [runs EXCEPT ![r] = [@ EXCEPT !.pc = "fetching", !.url = url,
                                                  !.save_to_db = save_to_db,
                                                  !.scraper = Len(scrapers) + 1]]
    /\ UNCHANGED <<fetch_vars, analysis_vars, parser_vars>>

\* fetch_multiple_pages returns: the "async with" block is left and the
\* session of its scraper closed; without content the call returns the
\* failure; otherwise _parse_comprehensive_content extracts the record with
\* self.parser, as it is now, up to "await find_competitors" (which may raise
\* before: the failure is returned).
shared_extract(r) ==
    /\ runs[r].pc = "fetching"
    /\ scrapers' = [scrapers EXCEPT ![runs[r].scraper] = aexit(@)]
    /\ \E outcome \in {"content", "no_content", "raises"} :
         runs' = [runs EXCEPT ![r] =
                    IF outcome = "content"
                    THEN [@ EXCEPT !.pc = "competitors", !.base_url = self_parser]
                    ELSE [@ EXCEPT !.pc = "done", !.result = FailureResult]]
    /\ UNCHANGED <<self_parser, self_scraper>>
    /\ UNCHANGED <<fetch_vars, analysis_vars, parser_vars>>

\* find_competitors returns or raises; the BrandContext is built, the
\* database block runs when save_to_db is set, and the result is returned.
shared_store(r) ==
    /\ runs[r].pc = "competitors"
    /\ \E raises \in BOOLEAN, fault \in DbFaults :
         LET record == SharedRecord(runs[r].url, runs[r].base_url)
             out == save_to_database(db, runs[r].url, record, r, fault)
         IN IF raises
            THEN /\ runs' = [runs EXCEPT ![r] = [@ EXCEPT !.pc = "done",
                                                          !.result = FailureResult]]
                 /\ UNCHANGED db
            ELSE IF runs[r].save_to_db
            THEN /\ runs' = [runs EXCEPT ![r] =
                               [@ EXCEPT !.pc = "done", !.session = out.session,
                                         !.brand_id = out.brand_id,
                                         !.result = [success |-> TRUE,
                                                     brand_id |-> out.brand_id,
                                                     saved_to_database |-> TRUE,
                                                     pages_analyzed |-> 1]]]
                 /\ db' = out.db
            ELSE /\ runs' = [runs EXCEPT ![r] =
                               [@ EXCEPT !.pc = "done",
                                         !.result = [success |-> TRUE, brand_id |-> 0,
                                                     saved_to_database |-> FALSE,
                                                     pages_analyzed |-> 1]]]
                 /\ UNCHANGED db
    /\ UNCHANGED <<self_parser, self_scraper, scrapers>>
    /\ UNCHANGED <<pc, request, scraped_content, competitors_out, brand_context,
                   brand_id, session, returned, response>>
    /\ UNCHANGED <<fetch_vars, parser_vars>>

(***************************************************************************)
(* The state before any request: nothing fetched, nothing analysed, an     *)
(* empty database.                                                         *)
(***************************************************************************)
InitFetcher ==
    /\ fpc = "idle"
    /\ urls = << >>
    /\ task = << >>
    /\ requests = << >>
    /\ last = << >>
    /\ results = << >>
    /\ scraped_data = << >>

InitAnalyzer ==
    /\ pc = "idle"
    /\ request = NoRequest
    /\ scraped_content = << >>
    /\ competitors_out = NotCalled
    /\ brand_context = NoRecord
    /\ brand_id = 0
    /\ session = NoSession
    /\ returned = << >>
    /\ db = EmptyDb
    /\ response = NoReply

\* No extraction method has been called.
NoCall == [method |-> "none"]
NoOutput == [raised |-> FALSE, value |-> None]

InitParser ==
    /\ parser_call = NoCall
    /\ parser_out = NoOutput

\* The analyzer as the module creates it, and no call yet.
InitShared ==
    /\ self_parser = "none"
    /\ self_scraper = 0
    /\ scrapers = << >>
    /\ runs = [r \in Runs |-> NewRun]

Init == InitFetcher /\ InitAnalyzer /\ InitParser /\ InitShared

(***************************************************************************)
(* SpecFetch: one call of fetch_multiple_pages, its tasks interleaved.     *)
(***************************************************************************)
NextFetch ==
    \/ fetch_multiple_pages_call
    \/ \E u \in BatchUrls : fetch_normalize(u)
    \/ \E u \in BatchUrls : fetch_attempt(u)
    \/ \E u \in BatchUrls : fetch_retry(u)
    \/ fetch_gather
    \/ analyze_await_fetch

SpecFetch == Init /\ [][NextFetch]_vars

(***************************************************************************)
(* Spec: one analysis request, for every store of the model.               *)
(***************************************************************************)
Next ==
    \/ analyze_fetch(1, Domains, FetchOutcomes("/"), ServedPages, MaxPagesFetched)
    \/ analyze_parse
    \/ analyze_competitors
    \/ analyze_store
    \/ route_respond

Spec == Init /\ [][Next]_vars

(***************************************************************************)
(* SpecDb: successive analysis requests against one database, for two      *)
(* stores whose home page is absent, without markup, or with one hero      *)
(* element, and which may serve the product feed.                          *)
(***************************************************************************)
\* Number of analysis requests served one after the other.
MaxRequests == 2

DbDomains == { "allbirds.com", "acme.com" }
DbHomes == { None, Wrap("/", HomeBody(1)), Wrap("/", HomeBody(3)) }
DbPages == { "/products.json", "/pages/privacy-policy" }

NextDb ==
    \/ analyze_fetch(MaxRequests, DbDomains, DbHomes, DbPages, 1)
    \/ analyze_parse
    \/ analyze_competitors
    \/ analyze_store
    \/ route_respond

SpecDb == Init /\ [][NextDb]_vars

(***************************************************************************)
(* SpecShared: concurrent requests on the shared analyzer.                 *)
(***************************************************************************)
NextShared ==
    \/ \E r \in Runs : shared_start(r, SharedUrls, BOOLEAN)
    \/ \E r \in Runs : shared_extract(r)
    \/ \E r \in Runs : shared_store(r)

SpecShared == Init /\ [][NextShared]_vars

(***************************************************************************)
(* SpecLive: one call of analyze_and_store_shop with the tasks of its      *)
(* fetch, for one store and with saving enabled.  A request may or may    *)
(* not arrive.  Once the call has started,                                 *)
(* the event loop runs whatever is ready: session.get completes or times   *)
(* out (ClientTimeout), asyncio.sleep ends, a finished batch resumes       *)
(* gather and then the call, which goes on to its return.                  *)
(***************************************************************************)
\* "await self.scraper.fetch_multiple_pages(urls_to_scrape)" in the call.
analyze_call_fetch ==
    /\ runs[1].pc = "fetching"
    /\ fetch_multiple_pages_call

\* fetch_multiple_pages has returned and the call resumes.
analyze_resume ==
    /\ fpc = "returned"
    /\ shared_extract(1)

\* The steps the event loop takes once the call has started.
EventLoopSteps ==
    \/ analyze_call_fetch
    \/ \E u \in BatchUrls : fetch_normalize(u)
    \/ \E u \in BatchUrls : fetch_attempt(u)
    \/ \E u \in BatchUrls : fetch_retry(u)
    \/ fetch_gather
    \/ analyze_resume
    \/ shared_store(1)

NextLive ==
    \/ shared_start(1, {"allbirds.com"}, {TRUE})
    \/ analyze_call_fetch
    \/ \E u \in BatchUrls : fetch_normalize(u)
    \/ \E u \in BatchUrls : fetch_attempt(u)
    \/ \E u \in BatchUrls : fetch_retry(u)
    \/ fetch_gather
    \/ analyze_resume
    \/ shared_store(1)

SpecLive == Init /\ [][NextLive]_vars /\ WF_vars(EventLoopSteps)

(***************************************************************************)
(* ShopifyParser's extraction methods on their own (services/parser.py).   *)
(* A call is [method, input]; its outcome is the value returned, or that   *)
(* the call raised.                                                        *)
(***************************************************************************)
Returned(value) == [raised |-> FALSE, value |-> value]
RaisedError == [raised |-> TRUE, value |-> None]

\* ---- parse_products_json ----
\* A feed is the list under 'products'.  An element is a product dictionary
\* with the 'available' values of its variants ("true", "false", "null"), a
\* dictionary with a field the Product model rejects, or a value that is not
\* a dictionary.
MaxProducts == 2
MaxVariants == 2

\* "available=any(v.available for v in variants) if variants else True"
ProductAvailable_AllVariants(variants) ==
    \A i \in 1..Len(variants) : variants[i] = "true"
ProductAvailable(variants) ==
    IF variants # << >> THEN \E i \in 1..Len(variants) : variants[i] = "true"
    ELSE TRUE

\* The loop over the feed from element i on.  A dictionary the model rejects
\* is skipped by the inner except.  For a value that is not a dictionary the
\* inner except handler itself raises (product_data.get in its log line), the
\* outer except ends the loop and the products parsed so far are returned.
\* "Get primary variant pricing": float() of the first variant's price, then
\* of its compare_at_price, under one try; a field that is missing or empty
\* stays None, and a ValueError leaves what was not yet assigned at None.
\* A price field is missing, a numeric text with its value, or another text.
FirstVariantPricing(product_data) ==
    LET Float(field) == [type |-> "float", value |-> field.value]
        price == product_data.price
        compare_at_price == product_data.compare_at_price
    IN IF product_data.variants = << >> THEN [price |-> None, compare_at_price |-> None]
       ELSE IF price.kind = "text" THEN [price |-> None, compare_at_price |-> None]
       ELSE [price |-> IF price.kind = "numeric" THEN Float(price) ELSE None,
             compare_at_price |-> IF compare_at_price.kind = "numeric"
                                  THEN Float(compare_at_price) ELSE None]

RECURSIVE ProductLoop(_, _, _)
ProductLoop(products, feed, i) ==
    IF i > Len(feed) THEN products
    ELSE IF feed[i].kind = "not_a_dict" THEN products
    ELSE IF feed[i].kind = "invalid" THEN ProductLoop(products, feed, i + 1)
    ELSE ProductLoop(
            Append(products, [element |-> i,
                              price |-> FirstVariantPricing(feed[i]).price,
                              compare_at_price |-> FirstVariantPricing(feed[i]).compare_at_price,
                              available |-> ProductAvailable(feed[i].variants)]),
            feed, i + 1)

parse_products_json(feed) == Returned(ProductLoop(<< >>, feed, 1))

\* ---- parse_social_handles_from_html ----
\* A page is the list of its <a href> values.  An href names a platform of
\* the table or none; it is absolute, relative, or relative and not joinable
\* (urljoin raises ValueError, e.g. "//[instagram.com/shop").
MaxLinks == 2

\* The loop over the links from link i on: [raised, handles].  An href seen
\* before is skipped; an href of a platform gives a handle with its full URL:
\* the href itself when it starts with "http", else the href joined to the
\* base URL, so that "https://instagram.com/1" and "//instagram.com/1" give
\* the same URL.
RECURSIVE SocialLoop(_, _, _, _)
SocialLoop(social_handles, seen_urls, page, i) ==
    IF i > Len(page) THEN [raised |-> FALSE, handles |-> social_handles]
    ELSE LET href == page[i]
         IN IF href \in seen_urls \/ href.platform = "none"
            THEN SocialLoop(social_handles, seen_urls \cup {href}, page, i + 1)
            ELSE IF href.form = "unjoinable"
            THEN [raised |-> TRUE, handles |-> social_handles]
            ELSE SocialLoop(Append(social_handles,
                                   [platform |-> href.platform,
                                    url |-> [host |-> href.platform, path |-> href.id]]),
                            seen_urls \cup {href}, page, i + 1)

\* The platforms of the domain table.
platforms ==
    { "instagram", "facebook", "twitter", "linkedin", "youtube", "tiktok", "pinterest",
      "snapchat", "whatsapp", "telegram" }

\* "Remove duplicates": a handle is kept unless a handle with the same
\* platform and URL was kept before it.
unique_handles_AllKept(social_handles) == social_handles
unique_handles(social_handles) ==
    LET numbered == [i \in 1..Len(social_handles) |-> [at |-> i, handle |-> social_handles[i]]]
        kept == SelectSeq(numbered,
                          LAMBDA e : \A j \in 1..(e.at - 1) : social_handles[j] # e.handle)
    IN [i \in 1..Len(kept) |-> kept[i].handle]

\* unique_handles is first assigned after the loop, inside the try; the
\* return statement is after the except branch.  When the loop raises, the
\* except branch logs and the return reads a name that was never bound:
\* UnboundLocalError leaves the method.
parse_social_handles_from_html(page) ==
    LET looped == SocialLoop(<< >>, {}, page, 1)
    IN IF looped.raised THEN RaisedError
       ELSE Returned(unique_handles(looped.handles))

\* ---- parse_important_links_from_html ----
\* link_categories, in the dictionary's order, with the number of keywords
\* of each category.
LinkCategories ==
    << "contact", "about", "blog", "careers", "press", "help", "service", "faq",
       "store_locator", "wholesale", "affiliate", "sustainability", "reviews" >>

KeywordCount ==
    [contact |-> 6, about |-> 6, blog |-> 6, careers |-> 6, press |-> 5, help |-> 5,
     service |-> 8, faq |-> 6, store_locator |-> 5, wholesale |-> 6, affiliate |-> 5,
     sustainability |-> 5, reviews |-> 4]

\* A page is the list of its links in document order.  A link lies in a
\* navigation area ("nav"), a footer area ("footer") or elsewhere ("other");
\* match tells whether its text holds a keyword ("text"), only its href does
\* ("href"), or it matches nothing or is skipped ("none"); keyword is the
\* position of the first keyword found in the list of its category; exact and
\* short describe its text; an href that is not joinable makes urljoin raise.
MaxNavLinks == 2

\* _process_link_for_categories: the candidates a link adds, none or one.
process_link_for_categories(link, priority_boost) ==
    LET rank == KeywordCount[link.category] - (link.keyword - 1)
    IN IF link.match = "text"
       THEN << [link |-> link, category |-> link.category,
                score |-> priority_boost + rank * 2
                          + (IF link.exact THEN 5 ELSE 0)
                          + (IF link.short THEN 2 ELSE 0)] >>
       ELSE IF link.match = "href"
       THEN << [link |-> link, category |-> link.category,
                score |-> priority_boost + rank] >>
       ELSE << >>

\* One pass over the links of the given areas, from link i on.
RECURSIVE LinkPass(_, _, _, _, _)
LinkPass(candidates, page, i, areas, priority_boost) ==
    IF i > Len(page) THEN candidates
    ELSE LinkPass(IF page[i].area \in areas
                  THEN candidates \o process_link_for_categories(page[i], priority_boost)
                  ELSE candidates,
                  page, i + 1, areas, priority_boost)

\* category_candidates after the three passes: the navigation areas with
\* priority_boost 10, the footer areas, and, while a category has no
\* candidate, every link of the page once more.
category_candidates(page) ==
    LET priority == LinkPass(<< >>, page, 1, {"nav"}, 10)
        secondary == LinkPass(priority, page, 1, {"footer"}, 0)
        missing == { k \in 1..Len(LinkCategories) :
                       \A j \in 1..Len(secondary) :
                           secondary[j].category # LinkCategories[k] }
    IN IF missing # {}
       THEN LinkPass(secondary, page, 1, {"nav", "footer", "other"}, 0)
       ELSE secondary

\* "candidates.sort(key=lambda x: x[1], reverse=True); candidates[0]": the
\* sort is stable, the first candidate with the highest score is taken.
BestCandidate_FirstFound(candidates) == candidates[1]
BestCandidate(candidates) ==
    LET IsBest(j) == \A k \in 1..Len(candidates) : candidates[k].score <= candidates[j].score
    IN candidates[CHOOSE j \in 1..Len(candidates) :
                     IsBest(j) /\ \A k \in 1..(j - 1) : ~IsBest(k)]

\* The selection loop over the categories from category k on.  When
\* build_absolute_url raises for the best candidate, the except branch of the
\* method ends the loop and the links selected so far are returned.
RECURSIVE SelectLinks(_, _, _)
SelectLinks(important_links, candidates, k) ==
    IF k > Len(LinkCategories) THEN important_links
    ELSE LET mine == SelectSeq(candidates, LAMBDA c : c.category = LinkCategories[k])
         IN IF mine = << >> THEN SelectLinks(important_links, candidates, k + 1)
            ELSE IF ~BestCandidate(mine).link.joinable THEN important_links
            ELSE SelectLinks(
                    Append(important_links,
                           [type |-> LinkCategories[k], link |-> BestCandidate(mine).link,
                            score |-> BestCandidate(mine).score]),
                    candidates, k + 1)

parse_important_links_from_html(page) ==
    Returned(SelectLinks(<< >>, category_candidates(page), 1))

\* ---- parse_contact_info_from_html ----
\* A page gives the candidates found in it: all_emails, all_phones and
\* all_addresses, each a list(set(...)), i.e. distinct values in any order.
\* An email is its local part (one of the priority patterns, "word" for any
\* other alphabetic local part, "other" for the rest) and its length: "short"
\* (under 30 characters), "medium", or "long" (over 50).
MaxEmails == 2
MaxPhones == 1

priority_patterns == <<"info", "contact", "hello", "support", "sales", "admin", "word">>

\* The score _select_best_email gives an email.
EmailScore_ReversedPriority(email) ==
    LET hits == { i \in 1..Len(priority_patterns) : priority_patterns[i] = email.local }
    IN (IF hits = {} THEN 0 ELSE (CHOOSE i \in hits : TRUE) + 10)
       + (IF email.size = "short" THEN 2 ELSE 0)
       - (IF email.size = "long" THEN 3 ELSE 0)
EmailScore(email) ==
    LET hits == { i \in 1..Len(priority_patterns) : priority_patterns[i] = email.local }
    IN (IF hits = {} THEN 0
        ELSE Len(priority_patterns) - ((CHOOSE i \in hits : TRUE) - 1) + 10)
       + (IF email.size = "short" THEN 2 ELSE 0)
       - (IF email.size = "long" THEN 3 ELSE 0)

\* The score _select_best_phone gives a phone: its digits, its format
\* ("paren": (ddd) ddd-dddd, "dashed": ddd-ddd-dddd, "plain"), an extension.
PhoneScore(phone) ==
    (IF phone.digits = 10 THEN 10 ELSE IF phone.digits > 6 THEN 5 ELSE 0)
    + (IF phone.format = "paren" THEN 5 ELSE IF phone.format = "dashed" THEN 3 ELSE 0)
    + (IF phone.ext THEN 0 ELSE 2)

\* The score _select_best_address gives an address: its comma-separated
\* components, a zip code, a state abbreviation, its length.
AddressScore(address) ==
    (IF address.components >= 3 THEN 10 ELSE IF address.components >= 2 THEN 5 ELSE 0)
    + (IF address.zip THEN 5 ELSE 0)
    + (IF address.state THEN 3 ELSE 0)
    + (IF address.len >= 30 /\ address.len <= 150 THEN 2 ELSE 0)
    - (IF address.len < 20 \/ address.len > 200 THEN 5 ELSE 0)

\* "[best] if best else []" after a stable sort by descending score: the
\* first candidate with the highest score, or nothing without candidates.
SelectBest(candidates, score) ==
    LET IsBest(j) == \A k \in 1..Len(candidates) : score[k] <= score[j]
    IN IF candidates = << >> THEN << >>
       ELSE << candidates[CHOOSE j \in 1..Len(candidates) :
                             IsBest(j) /\ \A k \in 1..(j - 1) : ~IsBest(k)] >>

parse_contact_info_from_html(page) ==
    Returned([emails |-> SelectBest(page.emails,
                            [i \in 1..Len(page.emails) |-> EmailScore(page.emails[i])]),
              phone_numbers |-> SelectBest(page.phones,
                            [i \in 1..Len(page.phones) |-> PhoneScore(page.phones[i])]),
              addresses |-> SelectBest(page.addresses,
                            [i \in 1..Len(page.addresses) |-> AddressScore(page.addresses[i])])])

\* _parse_comprehensive_content, "Clean phone numbers": a phone without a
\* digit (a tel: link such as "tel:call-us") is dropped from the contact info.
clean_phone_numbers(contact_info) ==
    [contact_info EXCEPT
       !.phone_numbers = SelectSeq(@, LAMBDA phone : phone.digits > 0)]

\* ---- parse_brand_info_from_html and _get_comprehensive_brand_name ----
\* A text is the list of its words, separated by blanks; "|" and "-" are
\* words of their own.  A page has a <title>, an <h1>, an og:site_name and an
\* application-name meta tag, each None when the page has no such element.
\* The host of the URL is a prefix label ("www", "shop", "" for none) and the
\* first label after it.
MaxTitleWords == 4

Str(text) == [type |-> "str", text |-> text]

\* parse_brand_info_from_html: the dictionary it returns, as far as the brand
\* name goes.  The first of the selectors 'title', 'h1' with a non-empty text
\* gives the value under the key 'brand_name'.
parse_brand_info_from_html(page) ==
    [brand_name |-> IF page.title # None /\ page.title.text # << >> THEN page.title
                    ELSE IF page.h1 # None /\ page.h1.text # << >> THEN page.h1
                    ELSE None]

\* _extract_brand_name_from_title: the part after the last "|", else after
\* the last "-", else the first word; 'Unknown Brand' without a <title>.
extract_brand_name_from_title(page) ==
    LET title_text == page.title.text
        AfterLast(sep) ==
            LET at == { i \in 1..Len(title_text) : title_text[i] = sep }
                last_at == CHOOSE i \in at : \A j \in at : j <= i
            IN SubSeq(title_text, last_at + 1, Len(title_text))
    IN IF page.title = None THEN Str(<<"Unknown", "Brand">>)
       ELSE IF \E i \in 1..Len(title_text) : title_text[i] = "|" THEN Str(AfterLast("|"))
       ELSE IF \E i \in 1..Len(title_text) : title_text[i] = "-" THEN Str(AfterLast("-"))
       ELSE Str(Take(title_text, 1))

\* _extract_brand_name_from_url: the prefix label is dropped, the first label
\* is stripped of its special characters and capitalised.
extract_brand_name_from_url(host) ==
    Str(<< CASE host.label = "allbirds" -> "Allbirds"
             [] host.label = "my-shop" -> "Myshop" >>)

\* The final cleanup of _get_comprehensive_brand_name: one trailing suffix
\* word that follows a blank is removed, then one trailing run of ":", "-",
\* "|", then the blanks around.
final_cleanup_KeepsSuffix(text) ==
    IF text # << >> /\ text[Len(text)] \in {"|", "-"}
    THEN SubSeq(text, 1, Len(text) - 1) ELSE text
final_cleanup(text) ==
    LET unsuffixed == IF Len(text) >= 2 /\ text[Len(text)] \in {"Store", "Shop", "Inc"}
                      THEN SubSeq(text, 1, Len(text) - 1) ELSE text
    IN IF unsuffixed # << >> /\ unsuffixed[Len(unsuffixed)] \in {"|", "-"}
       THEN SubSeq(unsuffixed, 1, Len(unsuffixed) - 1) ELSE unsuffixed

\* _get_comprehensive_brand_name(url, html_content, brand_info): the name
\* under brand_info's key 'name' unless generic, else the title's, else the
\* meta tags', else the URL's; cleaned up, and the URL's when nothing is left.
get_comprehensive_brand_name(host, page, brand_info) ==
    LET name == IF "name" \in DOMAIN brand_info THEN brand_info["name"] ELSE None
        Generic(text) == \E i \in 1..Len(text) : text[i] \in {"Home", "Welcome", "Shop", "Store"}
        from_parser == IF name # None /\ name.text # << >> /\ ~Generic(name.text)
                       THEN name ELSE None
        title_name == extract_brand_name_from_title(page)
        from_title == IF from_parser # None THEN from_parser
                      ELSE IF title_name.text # << >> /\ title_name # Str(<<"Unknown", "Brand">>)
                      THEN title_name ELSE None
        from_meta == IF from_title # None THEN from_title
                     ELSE IF page.og_site_name # None THEN page.og_site_name
                     ELSE page.application_name
        brand_name == IF from_meta # None THEN from_meta
                      ELSE extract_brand_name_from_url(host)
    IN IF final_cleanup(brand_name.text) # << >> THEN Str(final_cleanup(brand_name.text))
       ELSE extract_brand_name_from_url(host)

\* One extraction method is called on one input; the parser serves one call
\* at a time and keeps nothing from one call to the next.
call_parse_products_json ==
    /\ parser_call = NoCall
    /\ LET VariantLists ==
               UNION { [1..n -> {"true", "false", "null"}] : n \in 0..MaxVariants }
           Prices == { [kind |-> "missing", value |-> 0], [kind |-> "numeric", value |-> 1999],
                       [kind |-> "text", value |-> 0] }
           ProductElements ==
               { [kind |-> "dict", variants |-> v, price |-> [kind |-> "numeric", value |-> 1999],
                  compare_at_price |-> [kind |-> "missing", value |-> 0]] : v \in VariantLists }
               \cup { [kind |-> "dict", variants |-> <<"true">>, price |-> pr,
                       compare_at_price |-> [cp EXCEPT !.value = IF @ = 0 THEN 0 ELSE 2500]] :
                       pr \in Prices, cp \in Prices }
               \cup { [kind |-> k, variants |-> << >>, price |-> [kind |-> "missing", value |-> 0],
                       compare_at_price |-> [kind |-> "missing", value |-> 0]] :
                       k \in {"invalid", "not_a_dict"} }
       IN \E feed \in UNION { [1..n -> ProductElements] : n \in 0..MaxProducts } :
            /\ parser_call' = [method |-> "parse_products_json", input |-> feed]
            /\ parser_out' = parse_products_json(feed)
    /\ UNCHANGED <<fetch_vars, analysis_vars, shared_vars>>

call_parse_social_handles_from_html ==
    /\ parser_call = NoCall
    /\ LET Hrefs == { [platform |-> pf, form |-> f, id |-> i] :
                        pf \in {"instagram", "tiktok", "none"},
                        f \in {"absolute", "relative", "unjoinable"}, i \in 1..2 }
       IN \E page \in UNION { [1..n -> Hrefs] : n \in 0..MaxLinks } :
            /\ parser_call' = [method |-> "parse_social_handles_from_html",
                               input |-> page]
            /\ parser_out' = parse_social_handles_from_html(page)
    /\ UNCHANGED <<fetch_vars, analysis_vars, shared_vars>>

call_parse_important_links_from_html ==
    /\ parser_call = NoCall
    /\ LET Matches ==
               { [match |-> "text", category |-> c, keyword |-> k, exact |-> e[1],
                  short |-> e[2]] :
                   c \in {"contact", "press"}, k \in 1..2,
                   e \in { <<TRUE, TRUE>>, <<FALSE, TRUE>>, <<FALSE, FALSE>> } }
               \cup { [match |-> "href", category |-> c, keyword |-> k, exact |-> FALSE,
                       short |-> FALSE] : c \in {"contact", "press"}, k \in 1..2 }
               \cup { [match |-> "none", category |-> "contact", keyword |-> 1,
                       exact |-> FALSE, short |-> FALSE] }
           Links ==
               { [area |-> a, match |-> m.match, category |-> m.category,
                  keyword |-> m.keyword, exact |-> m.exact, short |-> m.short,
                  joinable |-> TRUE] : a \in {"nav", "footer", "other"}, m \in Matches }
               \cup { [area |-> "nav", match |-> "text", category |-> "contact",
                       keyword |-> 1, exact |-> TRUE, short |-> TRUE, joinable |-> FALSE] }
       IN \E page \in UNION { [1..n -> Links] : n \in 0..MaxNavLinks } :
            /\ parser_call' = [method |-> "parse_important_links_from_html",
                               input |-> page]
            /\ parser_out' = parse_important_links_from_html(page)
    /\ UNCHANGED <<fetch_vars, analysis_vars, shared_vars>>

\* The contact info as _parse_comprehensive_content places it in the record.
call_parse_contact_info_from_html ==
    /\ parser_call = NoCall
    /\ LET Emails ==
               { [local |-> l, size |-> "short"] :
                   l \in {"info", "contact", "hello", "support", "sales", "admin",
                          "word", "other"} }
               \cup { [local |-> "info", size |-> "medium"],
                      [local |-> "info", size |-> "long"],
                      [local |-> "other", size |-> "long"] }
           Phones ==
               { [digits |-> 10, format |-> "paren", ext |-> FALSE],
                 [digits |-> 7, format |-> "plain", ext |-> TRUE],
                 [digits |-> 0, format |-> "plain", ext |-> FALSE] }
           Addresses ==
               { [components |-> 3, zip |-> TRUE, state |-> TRUE, len |-> 40],
                 [components |-> 1, zip |-> FALSE, state |-> FALSE, len |-> 16] }
           Lists(S, n) ==
               { q \in UNION { [1..m -> S] : m \in 0..n } :
                   \A i, j \in 1..Len(q) : i # j => q[i] # q[j] }
       IN \E emails \in Lists(Emails, MaxEmails), phones \in Lists(Phones, MaxPhones),
             addresses \in Lists(Addresses, MaxPhones) :
            LET page == [emails |-> emails, phones |-> phones, addresses |-> addresses]
            IN /\ parser_call' = [method |-> "parse_contact_info_from_html",
                                  html_content |-> page]
               /\ parser_out' =
                    [raised |-> FALSE, type |-> "dict",
                     value |-> clean_phone_numbers(parse_contact_info_from_html(page).value)]
    /\ UNCHANGED <<fetch_vars, analysis_vars, shared_vars>>

\* The hero products of a home page, as _parse_comprehensive_content asks
\* for them.
call_parse_hero_products_from_html ==
    /\ parser_call = NoCall
    /\ \E k \in 1..Len(HomePages) :
         /\ parser_call' = [method |-> "parse_hero_products_from_html", input |-> k]
         /\ parser_out' = Returned(parse_hero_products_from_html(HomePages[k]))
    /\ UNCHANGED <<fetch_vars, analysis_vars, shared_vars>>

\* The brand name as _parse_comprehensive_content places it in the record:
\* parse_brand_info_from_html(main_html), then _get_comprehensive_brand_name.
call_get_comprehensive_brand_name ==
    /\ parser_call = NoCall
    /\ LET Words == {"Foo", "Acme", "Store", "|", "-", "Unknown", "Brand"}
           Texts[n \in 0..MaxTitleWords] ==
               IF n = 0 THEN { << >> }
               ELSE Texts[n - 1] \cup { Append(t, w) : t \in Texts[n - 1], w \in Words }
           Titles == { Str(t) : t \in Texts[MaxTitleWords] }
       IN \E title \in Titles \cup {None}, h1 \in {None, Str(<<"Acme">>)},
             og \in {None, Str(<<"Og">>)}, app \in {None, Str(<<"App">>)},
             host \in { [prefix |-> "www", label |-> "allbirds"],
                        [prefix |-> "", label |-> "my-shop"] } :
            LET page == [title |-> title, h1 |-> h1, og_site_name |-> og,
                         application_name |-> app]
            IN /\ parser_call' = [method |-> "get_comprehensive_brand_name",
                                  html_content |-> page, host |-> host,
                                  brand_info |-> parse_brand_info_from_html(page)]
               /\ parser_out' =
                    [raised |-> FALSE, type |-> "str",
                     value |-> get_comprehensive_brand_name(
                                   host, page, parse_brand_info_from_html(page))]
    /\ UNCHANGED <<fetch_vars, analysis_vars, shared_vars>>

\* The caller has taken the outcome of the call.
parser_return ==
    /\ parser_call # NoCall
    /\ parser_call' = NoCall
    /\ parser_out' = NoOutput
    /\ UNCHANGED <<fetch_vars, analysis_vars, shared_vars>>

(***************************************************************************)
(* SpecParser: the extraction methods, each called on every input of the   *)
(* model.                                                                  *)
(***************************************************************************)
NextParser ==
    \/ call_parse_products_json
    \/ call_parse_social_handles_from_html
    \/ call_parse_important_links_from_html
    \/ call_parse_contact_info_from_html
    \/ call_get_comprehensive_brand_name
    \/ call_parse_hero_products_from_html
    \/ parser_return

SpecParser == Init /\ [][NextParser]_vars

(***************************************************************************)
(* Properties of the fetcher (checked under SpecFetch).                    *)
(***************************************************************************)
\* The entry of the returned mapping for u carries the fetched content v:
\* the HTML text under 'content', or the parsed feed under 'json'.
MapsToContent(u, v) ==
    /\ scraped_data[u] # None
    /\ scraped_data[u].url = u
    /\ IF EndsWithJson(u)
       THEN scraped_data[u].type = "json" /\ scraped_data[u].json = v
       ELSE scraped_data[u].type = "html" /\ scraped_data[u].content = v

\* C5 (as stated): fetch_multiple_pages never raises; the mapping it returns
\* has exactly one entry per requested URL; a URL whose fetch succeeded (the
\* fetch returned a body) maps to its content and a URL whose fetch failed
\* (None after all retries) maps to the absent value.
C5_SucceededMapsToContent ==
    /\ fpc # "raised"
    /\ fpc = "returned" =>
         /\ DOMAIN scraped_data = BatchUrls
         /\ \A u \in BatchUrls :
              IF task[u].ret # None
              THEN MapsToContent(u, task[u].ret)
              ELSE scraped_data[u] = None

\* C5 (amended): fetch_multiple_pages never raises; the mapping it returns
\* has exactly one entry per requested URL; a URL whose fetch returned a
\* non-empty body maps to its content, and a URL whose fetch failed after all
\* retries, raised, or returned an empty body maps to the absent value.
C5_NonEmptyMapsToContent ==
    /\ fpc # "raised"
    /\ fpc = "returned" =>
         /\ DOMAIN scraped_data = BatchUrls
         /\ \A u \in BatchUrls :
              IF task[u].ret # None /\ task[u].ret.len > 0
              THEN MapsToContent(u, task[u].ret)
              ELSE scraped_data[u] = None

\* C5 witness: a batch of two URLs has returned, one with its content, the
\* other absent after a transport error on its last attempt.
C5_Witness ==
    /\ fpc = "returned"
    /\ Len(urls) = 2
    /\ \E u, w \in BatchUrls :
         /\ MapsToContent(u, PlainBody)
         /\ scraped_data[w] = None
         /\ last[w] = TransportError
         /\ requests[w] > 1

\* C6 (as stated): no URL is requested more than MAX_RETRIES times in one fetch.
C6_AtMostMaxRetriesAttempts ==
    \A u \in BatchUrls : requests[u] <= MAX_RETRIES

\* C6 (amended): no URL is requested more than MAX_RETRIES + 1 times in one
\* fetch: the first attempt and at most MAX_RETRIES retries.
C6_AtMostMaxRetriesPlusOneAttempts ==
    \A u \in BatchUrls : requests[u] <= MAX_RETRIES + 1

\* C6 witness: a fetch has given up after MAX_RETRIES + 1 requests.
C6_Witness ==
    \E u \in BatchUrls :
        /\ task[u].pc = "done"
        /\ task[u].ret = None
        /\ requests[u] = MAX_RETRIES + 1

\* The latest attempt for u failed: a non-2xx status or a transport error.
AttemptFailed(u) ==
    \/ last[u].kind = "error"
    \/ last[u].kind = "response" /\ ~Is2xx(last[u])

\* C7: an attempt that receives any 2xx status ends the retry loop and returns
\* the response's content; an attempt that receives a non-2xx status or a
\* transport error is followed by another attempt while attempts remain.
C7_RetryExactlyOnFailure ==
    \A u \in BatchUrls :
        /\ Is2xx(last[u]) =>
             /\ task[u].pc = "done"
             /\ task[u].ret = last[u].body
        /\ AttemptFailed(u) =>
             \/ task[u].pc \in {"sleep", "request"}
             \/ task[u].pc = "done" /\ task[u].attempt = MAX_RETRIES

\* C19: fetch_multiple_pages returns only after every request of the batch
\* has settled (succeeded, exhausted its retries, or raised);
\* analyze_and_store_shop goes on to the extraction only after the whole
\* batch has returned, with the mapping the fetcher returned; and the entry
\* of each URL is fixed by the outcome of its own request, so the order in
\* which the requests complete does not change the mapping.
C19_BatchSettledBeforeExtraction ==
    /\ fpc = "returned" =>
         /\ DOMAIN scraped_data = BatchUrls
         /\ \A u \in BatchUrls :
              /\ task[u].pc = "done"
              /\ results[u] # Pending
              /\ scraped_data[u] =
                   IF results[u] = Raised THEN None
                   ELSE IF AttemptSucceeds(last[u]) THEN Wrap(u, last[u].body)
                   ELSE None
    /\ pc = "fetched" =>
         /\ fpc = "returned"
         /\ scraped_content = scraped_data

\* C19 witness: the extraction may start on a batch of two URLs whose second
\* request completed at once while the first needed three attempts; both
\* URLs map to their content.
C19_Witness ==
    /\ pc = "fetched"
    /\ Len(urls) = 2
    /\ requests[urls[1]] = 3 /\ requests[urls[2]] = 1
    /\ scraped_content[urls[1]] # None /\ scraped_content[urls[2]] # None

(***************************************************************************)
(* Properties of the aggregated record (checked under Spec).               *)
(***************************************************************************)
\* The home page of the request came back as page k of HomePages.
HomePageIs(k) ==
    /\ pc # "idle"
    /\ scraped_content["/"] # None
    /\ scraped_content["/"].content.home = k

\* C1: for every home page (also one without matching markup, images,
\* headings or links, and one whose parsing raises) the hero-product list
\* placed in the aggregated record has at least 2 entries.
C1_HeroProductsAtLeastTwo ==
    brand_context # NoRecord => Len(brand_context.hero_products) >= 2

\* C1 witness: a record built from a home page without any markup, holding
\* two fabricated hero products.
C1_Witness ==
    /\ HomePageIs(1)
    /\ brand_context # NoRecord
    /\ Len(brand_context.hero_products) = 2
    /\ \A i \in 1..2 : brand_context.hero_products[i].source = "basic"

\* C2: find_competitors returns at least 2 competitors, without raising, for
\* every target domain and every outcome of the lookup tiers.
C2_FindCompetitorsReturnsTwo ==
    competitors_out.called =>
        /\ ~competitors_out.raised
        /\ Len(competitors_out.list) >= 2

\* C3: the policies of the aggregated record hold at most one Policy per
\* policy type, whichever policy pages were fetched.
C3_OnePolicyPerType ==
    brand_context # NoRecord =>
        \A i, j \in 1..Len(brand_context.policies) :
            i # j => brand_context.policies[i].type # brand_context.policies[j].type

\* C4: the faqs of the aggregated record are at most 20, whichever FAQ pages
\* were fetched and however many entries each holds.
C4_FaqsAtMostTwenty ==
    brand_context # NoRecord => Len(brand_context.faqs) <= 20

\* The candidate URLs that yielded non-empty content, HTML or JSON.
UrlsWithContent == { u \in CandidateUrls : scraped_content[u] # None }

\* C8: pages_analyzed, in the record and in the result, is the number of
\* candidate URLs that yielded non-empty content, HTML and JSON alike.
C8_PagesAnalyzedCountsEveryFetched ==
    /\ brand_context # NoRecord =>
         brand_context.pages_analyzed = Cardinality(UrlsWithContent)
    /\ (returned # << >> /\ returned[1].success) =>
         returned[1].pages_analyzed = Cardinality(UrlsWithContent)

\* C11: the record the analyze route answers after a successful analysis
\* holds at least 2 hero products and at least 2 competitors.
C11_ReturnedRecordMeetsMinimums ==
    response.status = 200 =>
        /\ Len(response.brand_data.hero_products) >= 2
        /\ Len(response.brand_data.competitors) >= 2

\* C16: when no fetched FAQ page yields an entry the faqs of the record are
\* exactly the 3 default pairs; when an entry is extracted no default pair is
\* added.
C16_DefaultFaqsOnlyWhenNoneFound ==
    brand_context # NoRecord =>
        LET faqs == brand_context.faqs
            yielding == { u \in FaqPages :
                            /\ scraped_content[u] # None
                            /\ scraped_content[u].content.faqs > 0 }
        IN IF yielding = {}
           THEN /\ Len(faqs) = 3
                /\ \A i \in 1..3 : faqs[i].page = "default" /\ faqs[i].no = i
           ELSE /\ \A i \in 1..Len(faqs) : faqs[i].page \in yielding

\* C16 witness: a FAQ page was fetched, it held no FAQ entry, and the record
\* holds the 3 default pairs.
C16_Witness ==
    /\ brand_context # NoRecord
    /\ \E u \in FaqPages :
         /\ scraped_content[u] # None
         /\ scraped_content[u].content.faqs = 0
    /\ Len(brand_context.faqs) = 3
    /\ brand_context.faqs[1].page = "default"

\* C20: a Policy is in the record only for a policy page that was fetched
\* with a body of more than 100 characters, and the body of every Policy of
\* the record has at most 2000 characters.
C20_PolicyOnlyFromLongPageAndTruncated ==
    brand_context # NoRecord =>
        \A i \in 1..Len(brand_context.policies) :
            LET policy == brand_context.policies[i]
            IN /\ policy.url \in PolicyPages
               /\ scraped_content[policy.url] # None
               /\ scraped_content[policy.url].content.len > 100
               /\ policy.content_len <= 2000

\* C20 witness: a policy page of 2500 characters gave a Policy of 2000, and a
\* fetched policy page of 80 characters gave none.
C20_Witness ==
    /\ brand_context # NoRecord
    /\ Len(brand_context.policies) = 1
    /\ brand_context.policies[1].content_len = 2000
    /\ scraped_content[brand_context.policies[1].url].content.len = 2500
    /\ \E u \in PolicyPages :
         /\ scraped_content[u] # None
         /\ scraped_content[u].content.len = 80

(***************************************************************************)
(* Properties of the persistence (checked under SpecDb).                   *)
(***************************************************************************)
\* C9: when the home page's entry is absent, analyze_and_store_shop ends with
\* exactly one failure result and the database as it was, whatever the other
\* pages returned.
C9_HomeAbsentSingleFailure ==
    [][(pc = "fetched" /\ scraped_content["/"] = None) =>
          /\ pc' = "done"
          /\ Len(returned') = 1
          /\ ~returned'[1].success
          /\ db' = db]_vars

\* C9 witness: a request whose home page was absent while the product feed
\* came back has ended with its one failure result, a record of an earlier
\* analysis being stored.
C9_Witness ==
    /\ pc = "done"
    /\ scraped_content["/"] = None
    /\ scraped_content["/products.json"] # None
    /\ request.save_to_db
    /\ Len(returned) = 1
    /\ ~returned[1].success
    /\ db # EmptyDb

\* The rows of a table that belong to brand id, as (position, value) pairs.
StoredRows(id, table) ==
    { <<r.idx, r.value>> : r \in { x \in db.rows : x.brand_id = id /\ x.table = table } }

ListRows(list) == { <<i, list[i]>> : i \in 1..Len(list) }

C28_NoTargetNoRepeatedCompetitor ==
    (competitors_out.called /\ ~competitors_out.raised) =>
        LET list == competitors_out.list
        IN /\ \A i \in 1..Len(list) :
                ~(list[i].number = 0 /\ list[i].domain = request.domain)
           /\ \A i, j \in 1..Len(list) :
                (i # j) => (<<list[i].domain, list[i].number>>
                              # <<list[j].domain, list[j].number>>)

\* C25: persisting a re-analysis is all-or-nothing: when the database block
\* of the analysis of an already stored store failed (brand_id is None), the
\* store still has a brand row.
C25_FailedReanalysisKeepsRecord ==
    (/\ pc = "done"
     /\ request.save_to_db
     /\ session.existing_brand # 0
     /\ brand_id = 0) =>
        get_brand_by_url(db, request.domain) # 0

\* C26: a result reports saved_to_database only when its record was
\* committed: a successful result without brand_id has saved_to_database
\* false.
C26_SavedOnlyWhenCommitted ==
    \A i \in 1..Len(returned) :
        (returned[i].success /\ returned[i].brand_id = 0) =>
            ~returned[i].saved_to_database

(***************************************************************************)
(* Properties of the extraction methods (checked under SpecParser).        *)
(***************************************************************************)
\* C12: every extraction method returns a value and never raises, for every
\* input.
C12_ExtractionNeverRaises ==
    ~parser_out.raised

\* C13: parse_important_links_from_html returns at most one link per
\* category of the 13, each a candidate of its category that no candidate of
\* the category outscores.
C13_OneBestLinkPerCategory ==
    parser_call.method = "parse_important_links_from_html" =>
        LET links == parser_out.value
            candidates == category_candidates(parser_call.input)
        IN /\ \A i, j \in 1..Len(links) : i # j => links[i].type # links[j].type
           /\ \A i \in 1..Len(links) :
                /\ \E k \in 1..Len(LinkCategories) : LinkCategories[k] = links[i].type
                /\ \E j \in 1..Len(candidates) :
                     /\ candidates[j].category = links[i].type
                     /\ candidates[j].link = links[i].link
                     /\ candidates[j].score = links[i].score
                /\ \A j \in 1..Len(candidates) :
                     candidates[j].category = links[i].type =>
                        candidates[j].score <= links[i].score

\* C13 witness: of two navigation links of the category "contact" the second,
\* with the higher score, is the one returned.
C13_Witness ==
    /\ parser_call.method = "parse_important_links_from_html"
    /\ Len(parser_call.input) = 2
    /\ parser_call.input[1].area = "nav" /\ parser_call.input[1].match = "href"
    /\ parser_call.input[2].area = "nav" /\ parser_call.input[2].match = "text"
    /\ parser_call.input[1].category = "contact"
    /\ parser_call.input[2].category = "contact"
    /\ Len(parser_out.value) = 1
    /\ parser_out.value[1].link = parser_call.input[2]

\* C14: the contact info holds at most one email, one phone number and one
\* address; the email is a candidate that no candidate outscores, and among
\* candidates that are all shorter than 30 characters the local-part priority
\* info > contact > hello > support > sales > admin > other decides.
C14_OneBestContactPerKind ==
    parser_call.method = "parse_contact_info_from_html" =>
        LET contact_info == parser_out.value
            emails == parser_call.html_content.emails
            candidates == { emails[i] : i \in 1..Len(emails) }
            Priority(email) ==
                CASE email.local = "info" -> 1 [] email.local = "contact" -> 2
                  [] email.local = "hello" -> 3 [] email.local = "support" -> 4
                  [] email.local = "sales" -> 5 [] email.local = "admin" -> 6
                  [] OTHER -> 7
        IN /\ Len(contact_info.emails) <= 1
           /\ Len(contact_info.phone_numbers) <= 1
           /\ Len(contact_info.addresses) <= 1
           /\ candidates # {} =>
                /\ Len(contact_info.emails) = 1
                /\ contact_info.emails[1] \in candidates
                /\ \A c \in candidates : EmailScore(c) <= EmailScore(contact_info.emails[1])
                /\ (\A c \in candidates : c.size = "short") =>
                      \A c \in candidates :
                          Priority(contact_info.emails[1]) <= Priority(c)

\* C14 witness: of the candidates sales@ and info@, found in this order, the
\* email of the contact info is info@.
C14_Witness ==
    /\ parser_call.method = "parse_contact_info_from_html"
    /\ parser_call.html_content.emails = << [local |-> "sales", size |-> "short"],
                                     [local |-> "info", size |-> "short"] >>
    /\ parser_out.value.emails = << [local |-> "info", size |-> "short"] >>

\* C15: every product parsed by parse_products_json is available exactly when
\* it has no variants or at least one of its variants is available.
C15_AvailableIffAnyVariant ==
    parser_call.method = "parse_products_json" =>
        \A k \in 1..Len(parser_out.value) :
            LET product == parser_out.value[k]
                variants == parser_call.input[product.element].variants
            IN product.available <=>
                  \/ Len(variants) = 0
                  \/ "true" \in { variants[i] : i \in 1..Len(variants) }

\* C15 witness: a product with two variants, the first available and the
\* second not, was parsed as available.
C15_Witness ==
    /\ parser_call.method = "parse_products_json"
    /\ \E k \in 1..Len(parser_out.value) :
         /\ parser_call.input[parser_out.value[k].element].variants = <<"true", "false">>
         /\ parser_out.value[k].available

\* C21: no two entries of the list parse_hero_products_from_html returns
\* have near-duplicate titles (one contained in the other, lengths less than
\* 5 apart), the entries of the synthetic padding included.
C21_NoNearDuplicateTitles ==
    parser_call.method = "parse_hero_products_from_html" =>
        \A i, j \in 1..Len(parser_out.value) :
            i < j =>
                LET a == parser_out.value[i].title
                    b == parser_out.value[j].title
                    d == Len(a) - Len(b)
                IN ~(/\ IsSubstring(a, b) \/ IsSubstring(b, a)
                     /\ d < 5 /\ 0 - d < 5)

\* C22: for each product of the feed, price and compare-at price are each
\* the numeric value of the first variant's field, and each is null exactly
\* when the product has no variants or the field is missing or does not parse
\* as a number; a parse failure of one does not null the other.
C22_PricesParsedIndependently ==
    parser_call.method = "parse_products_json" =>
        \A k \in 1..Len(parser_out.value) :
            LET product == parser_out.value[k]
                product_data == parser_call.input[product.element]
                Expected(field) ==
                    IF product_data.variants # << >> /\ field.kind = "numeric"
                    THEN [type |-> "float", value |-> field.value]
                    ELSE None
            IN /\ product.price = Expected(product_data.price)
               /\ product.compare_at_price = Expected(product_data.compare_at_price)

\* C23: the list parse_social_handles_from_html returns holds no two handles
\* with the same platform and URL, and every handle's platform is one of the
\* 10 platforms of the domain table.
C23_HandlesUniqueAndKnown ==
    (parser_call.method = "parse_social_handles_from_html" /\ ~parser_out.raised) =>
        /\ \A i, j \in 1..Len(parser_out.value) :
                i # j => parser_out.value[i] # parser_out.value[j]
        /\ \A i \in 1..Len(parser_out.value) : parser_out.value[i].platform \in platforms
        /\ Cardinality(platforms) = 10

\* C23 witness: a page links the same profile with an absolute and with a
\* scheme-relative href; one handle is returned.
C23_Witness ==
    /\ parser_call.method = "parse_social_handles_from_html"
    /\ Len(parser_call.input) = 2
    /\ parser_call.input[1] = [platform |-> "instagram", form |-> "absolute", id |-> 1]
    /\ parser_call.input[2] = [platform |-> "instagram", form |-> "relative", id |-> 1]
    /\ ~parser_out.raised
    /\ Len(parser_out.value) = 1

(***************************************************************************)
(* Properties of the shared analyzer (checked under SpecShared).           *)
(***************************************************************************)
\* C24: with concurrent analyses on the shared analyzer, each analysis
\* extracts its record with the parser built for its own store: the base URL
\* its links were resolved against is its own URL.
C24_RecordUsesOwnBaseUrl ==
    \A r \in Runs : runs[r].base_url # "none" => runs[r].base_url = runs[r].url

\* C27: whatever the interleaving of concurrent analyses with saving enabled,
\* the database holds at most one brand row per store URL and every related
\* row belongs to a brand row that exists.
C27_OneBrandRowNoOrphans ==
    /\ \A url \in SharedUrls :
         Cardinality({ b \in db.brands : b.website_url = url }) <= 1
    /\ \A row \in db.rows : \E b \in db.brands : b.id = row.brand_id

\* C27 witness: two calls analysed the same store, the first one started
\* first, both saved their record, and the store has one brand row with its
\* related rows.
C27_Witness ==
    /\ \A r \in Runs : runs[r].pc = "done" /\ runs[r].save_to_db /\ runs[r].brand_id # 0
    /\ runs[1].url = runs[2].url
    /\ runs[1].scraper < runs[2].scraper
    /\ Cardinality(db.brands) = 1
    /\ db.rows # {}

\* C29: when a call of analyze_and_store_shop has returned, on success or
\* on failure, the HTTP session of the scraper it created is closed and the
\* database session it opened is closed.
C29_NoSessionLeftOpen ==
    \A r \in Runs :
        runs[r].pc = "done" =>
            /\ scrapers[runs[r].scraper] = "closed"
            /\ runs[r].session.opened => runs[r].session.closed

\* C29 witness: one call returned the failure after its fetch, the other
\* returned after a failed database block, and both left their sessions
\* closed although the analyzer holds the scraper of only one of them.
C29_Witness ==
    /\ runs[1].pc = "done" /\ ~runs[1].result.success
    /\ runs[2].pc = "done" /\ runs[2].result.success
    /\ runs[2].session.opened /\ runs[2].session.fault = "create"
    /\ runs[2].session.closed
    /\ self_scraper = runs[1].scraper
    /\ scrapers[runs[1].scraper] = "closed"
    /\ scrapers[runs[2].scraper] = "closed"

(***************************************************************************)
(* Termination (checked under SpecLive).                                   *)
(***************************************************************************)
\* C30: when every HTTP request completes or times out, every fetch settles
\* after at most MAX_RETRIES + 1 requests, fetch_multiple_pages eventually
\* returns, and analyze_and_store_shop eventually returns a result for the
\* request.
C30_EveryRequestEventuallyAnswered ==
    /\ [](\A u \in BatchUrls : requests[u] <= MAX_RETRIES + 1)
    /\ (fpc = "gathering") ~> (fpc = "returned")
    /\ (runs[1].pc = "fetching") ~> (runs[1].pc = "done" /\ runs[1].result # None)

\* C30 witness: the call returned a result after a fetch in which one URL
\* failed on every attempt and another one succeeded after a retry.
C30_Witness ==
    /\ runs[1].pc = "done"
    /\ runs[1].result # None
    /\ fpc = "returned"
    /\ \E u, v \in BatchUrls :
         /\ requests[u] = MAX_RETRIES + 1 /\ scraped_data[u] = None
         /\ requests[v] = 2 /\ scraped_data[v] # None

\* ---- Properties of the brand-name resolution ----
BrandNameResolved == parser_call.method = "get_comprehensive_brand_name"

\* The part of the title after its last "|", or without a "|" after its last
\* "-", as a list of words.
TrailingSegment ==
    LET t == parser_call.html_content.title.text
        sep == IF \E i \in 1..Len(t) : t[i] = "|" THEN "|" ELSE "-"
        k == CHOOSE i \in 1..Len(t) : t[i] = sep /\ \A j \in (i+1)..Len(t) : t[j] # sep
    IN SubSeq(t, k + 1, Len(t))

\* The trailing segment without its trailing suffix word and punctuation.
CleanedSegment ==
    LET seg == TrailingSegment
        n == Len(seg)
        m == IF n >= 2 /\ seg[n] = "Store" THEN n - 1 ELSE n
    IN IF m >= 1 /\ seg[m] \in {"|", "-"} THEN SubSeq(seg, 1, m - 1)
       ELSE SubSeq(seg, 1, m)

\* The title is the page's only brand signal and holds a "|" or a "-".
TitleOnlySignal ==
    /\ BrandNameResolved
    /\ parser_call.html_content.title # None
    /\ parser_call.html_content.h1 = None
    /\ parser_call.html_content.og_site_name = None
    /\ parser_call.html_content.application_name = None
    /\ \E i \in 1..Len(parser_call.html_content.title.text) :
            parser_call.html_content.title.text[i] \in {"|", "-"}

\* C17: when parse_brand_info_from_html extracted a non-generic brand name,
\* _get_comprehensive_brand_name resolves to that name (cleaned up), before
\* the title segment, the meta tags and the domain are considered.
C17_ParserBrandNameFirst ==
    BrandNameResolved =>
        LET extracted == parser_call.brand_info.brand_name
        IN (/\ extracted # None
            /\ \A i \in 1..Len(extracted.text) :
                    extracted.text[i] \notin {"Home", "Welcome", "Shop", "Store", "|", "-"})
           => parser_out.value = extracted

\* C18 as stated: with the title as only signal, the resolved name is the
\* cleaned trailing segment of the title, and it is not empty.
C18_TrailingSegmentAlways ==
    TitleOnlySignal =>
        /\ parser_out.value.text = CleanedSegment
        /\ parser_out.value.text # << >>

\* C18: with the title as only signal, the resolved name is the cleaned
\* trailing segment of the title unless nothing is left of the segment after
\* the cleaning or the segment reads 'Unknown Brand'; the name is then the one
\* derived from the URL.  The resolved name is never empty.
C18_TrailingSegmentUnlessEmpty ==
    TitleOnlySignal =>
        /\ parser_out.value.text # << >>
        /\ IF CleanedSegment # << >> /\ TrailingSegment # <<"Unknown", "Brand">>
           THEN parser_out.value.text = CleanedSegment
           ELSE parser_out.value = extract_brand_name_from_url(parser_call.host)

\* 'Foo | Acme Store' has been resolved to 'Acme'.
C18_Witness ==
    /\ TitleOnlySignal
    /\ parser_call.html_content.title.text = <<"Foo", "|", "Acme", "Store">>
    /\ parser_out.value.text = <<"Acme">>

====
